---- MODULE Spec2Model ----
(***************************************************************************)
(* Model of the GPToggle v2 model recommendation engine                    *)
(* (gptoggle_v2.py): ModelRegistry, InputAnalyzer, ModelScorer and the     *)
(* GPToggle orchestrator.                                                  *)
(* Also Config (gptoggle/config.py) and the module cleanup of             *)
(* EnhancedModuleService (src/modules/moduleServiceUMID.py).               *)
(*                                                                         *)
(* Python strings are modelled as sequences of one-character strings, so   *)
(* that substring search, lower-casing, word counting, key construction    *)
(* and message formatting are computed the way the code computes them.     *)
(* Python dicts that the code iterates (ModelRegistry.models) are          *)
(* sequences of entries in insertion order.                                *)
(***************************************************************************)
EXTENDS Integers, Sequences, FiniteSets, TLC

VARIABLES
    registry,   \* ModelRegistry.models: sequence of [key, info], in dict insertion order
    call,       \* the operation called last and its arguments
    result,     \* what that operation returned (or that it raised)
    before,     \* ModelRegistry.models as it was when the last operation started
    latest,     \* history: for each (provider, model_id) accepted so far, the descriptor registered last
    pc,         \* position of the in-flight get_task_recommendations call
    local,      \* local variables of the in-flight call, or of the caller between two calls
    during,     \* history: the registry contents that existed while the call was in flight; in the profile specifications, the calls made so far
    config,     \* the Config object: enabled_providers, in list order; in ResponseSpec, the keys of api_keys and provider_handlers
    profile     \* the user profile: context.modules as a sequence of [umid, metadata], in dict order; in QueriesSpec and TopicsSpec, the UserProfile

vars == <<registry, call, result, before, latest, pc, local, during, config, profile>>

-----------------------------------------------------------------------------
(* Strings *)

UpperCase == <<"A","B","C","D","E","F","G","H","I","J","K","L","M","N","O","P","Q","R","S","T","U","V","W","X","Y","Z">>

LowerCase == <<"a","b","c","d","e","f","g","h","i","j","k","l","m","n","o","p","q","r","s","t","u","v","w","x","y","z">>

DigitChars == <<"0","1","2","3","4","5","6","7","8","9">>

\* str.lower() of one upper-case character
UpperToLower ==
    [c \in {UpperCase[i] : i \in 1..Len(UpperCase)} |->
        LowerCase[CHOOSE i \in 1..Len(UpperCase) : UpperCase[i] = c]]

\* one character of str.lower()
Lower(c) == IF c \in DOMAIN UpperToLower THEN UpperToLower[c] ELSE c

\* str.lower()
ToLower(text) == [i \in 1..Len(text) |-> Lower(text[i])]

\* the characters the regular expression class \w matches
WordChars ==
    {UpperCase[i] : i \in 1..Len(UpperCase)}
    \cup {LowerCase[i] : i \in 1..Len(LowerCase)}
    \cup {DigitChars[i] : i \in 1..Len(DigitChars)}
    \cup {"_"}

IsWordChar(c) == c \in WordChars

\* Python's `keyword in text` on strings: keyword occurs at offset i for some i
Contains(text, keyword) ==
    \/ keyword = <<>>
    \/ \E i \in 0..(Len(text) - Len(keyword)) :
            /\ text[i + 1] = keyword[1]
            /\ \A j \in 2..Len(keyword) : text[i + j] = keyword[j]

\* str(n) for a non-negative integer
RECURSIVE IntToStr(_)
IntToStr(n) ==
    IF n < 10 THEN <<DigitChars[n + 1]>>
    ELSE IntToStr(n \div 10) \o <<DigitChars[(n % 10) + 1]>>

\* ", ".join(parts) and its like: the parts with sep between neighbours
RECURSIVE Join(_, _)
Join(parts, sep) ==
    IF Len(parts) = 0 THEN <<>>
    ELSE IF Len(parts) = 1 THEN parts[1]
    ELSE parts[1] \o sep \o Join(Tail(parts), sep)

\* Python's round(n / 4): round-half-to-even on a quotient by four
RoundQuarters(n) ==
    LET q == n \div 4
        r == n % 4
    IN  IF r < 2 THEN q
        ELSE IF r > 2 THEN q + 1
        ELSE IF q % 2 = 0 THEN q ELSE q + 1

\* F(value), with value computed once: TLC computes an operator's argument
\* anew at each use of the parameter, and a bound variable's value once
With(F(_), value) == CHOOSE r \in {F(v) : v \in {value}} : TRUE

Max(a, b) == IF a >= b THEN a ELSE b

Min(a, b) == IF a <= b THEN a ELSE b

-----------------------------------------------------------------------------
(* InputAnalyzer *)

VISION_KEYWORDS == <<
    <<"i","m","a","g","e">>, <<"p","i","c","t","u","r","e">>, <<"p","h","o","t","o">>, <<"d","i","a","g","r","a","m">>, <<"c","h","a","r","t">>,
    <<"s","c","r","e","e","n","s","h","o","t">>, <<"g","r","a","p","h">>, <<"i","n","f","o","g","r","a","p","h","i","c">>, <<"i","l","l","u","s","t","r","a","t","i","o","n">>,
    <<"v","i","s","u","a","l">>, <<"l","o","o","k"," ","a","t"," ","t","h","i","s">>, <<"a","n","a","l","y","z","e"," ","t","h","i","s"," ","i","m","a","g","e">> >>

CODE_KEYWORDS == <<
    <<"c","o","d","e">>, <<"p","r","o","g","r","a","m","m","i","n","g">>, <<"f","u","n","c","t","i","o","n">>, <<"a","l","g","o","r","i","t","h","m">>, <<"j","a","v","a","s","c","r","i","p","t">>,
    <<"p","y","t","h","o","n">>, <<"j","a","v","a">>, <<"c","+","+">>, <<"t","y","p","e","s","c","r","i","p","t">>, <<"h","t","m","l">>, <<"c","s","s">>,
    <<"r","e","a","c","t">>, <<"n","o","d","e">>, <<"e","x","p","r","e","s","s">>, <<"c","o","d","i","n","g">>, <<"b","u","g">>, <<"d","e","b","u","g">>,
    <<"s","c","r","i","p","t">>, <<"i","m","p","l","e","m","e","n","t","a","t","i","o","n">>, <<"s","o","f","t","w","a","r","e">>, <<"d","e","v","e","l","o","p","e","r">>, <<"c","o","m","p","i","l","e">> >>

MATH_KEYWORDS == <<
    <<"m","a","t","h">>, <<"c","a","l","c","u","l","a","t","i","o","n">>, <<"e","q","u","a","t","i","o","n">>, <<"f","o","r","m","u","l","a">>, <<"c","a","l","c","u","l","u","s">>,
    <<"a","l","g","e","b","r","a">>, <<"s","t","a","t","i","s","t","i","c","s">>, <<"p","r","o","b","a","b","i","l","i","t","y">>, <<"n","u","m","e","r","i","c","a","l">>,
    <<"c","o","m","p","u","t","a","t","i","o","n">>, <<"s","o","l","v","e">>, <<"g","e","o","m","e","t","r","i","c">>, <<"m","a","t","r","i","x">>, <<"v","e","c","t","o","r">> >>

CREATIVE_KEYWORDS == <<
    <<"c","r","e","a","t","i","v","e">>, <<"s","t","o","r","y">>, <<"p","o","e","m">>, <<"f","i","c","t","i","o","n">>, <<"n","a","r","r","a","t","i","v","e">>,
    <<"s","c","r","i","p","t">>, <<"s","c","r","e","e","n","p","l","a","y">>, <<"a","r","t","i","s","t","i","c">>, <<"i","m","a","g","i","n","a","t","i","v","e">>, <<"d","e","s","i","g","n">>,
    <<"i","n","v","e","n","t">>, <<"c","r","e","a","t","e">>, <<"n","o","v","e","l">>, <<"w","r","i","t","e">> >>

REASONING_KEYWORDS == <<
    <<"e","x","p","l","a","i","n">>, <<"r","e","a","s","o","n","i","n","g">>, <<"l","o","g","i","c">>, <<"r","a","t","i","o","n","a","l","e">>, <<"j","u","s","t","i","f","y">>,
    <<"a","r","g","u","m","e","n","t">>, <<"a","n","a","l","y","z","e">>, <<"d","e","d","u","c","e">>, <<"i","n","f","e","r">>, <<"s","t","e","p","-","b","y","-","s","t","e","p">>,
    <<"s","t","e","p"," ","b","y"," ","s","t","e","p">>, <<"b","r","e","a","k","d","o","w","n">>, <<"s","y","s","t","e","m","a","t","i","c">> >>

\* re.findall(r'\b\w+\b', text): one match per maximal run of \w characters
count_words(text) ==
    Cardinality({ i \in 1..Len(text) :
        /\ IsWordChar(text[i])
        /\ (i = 1 \/ ~IsWordChar(text[i - 1])) })

contains_keywords(text, keywords) ==
    With(LAMBDA text_lower :
            \E k \in 1..Len(keywords) :
                With(LAMBDA keyword : Contains(text_lower, keyword), ToLower(keywords[k])),
         ToLower(text))

estimate_tokens(text) ==
    Max(RoundQuarters(Len(text)), RoundQuarters(3 * count_words(text)))

\* a rating that counts the combined requirements only, from zero
assess_complexity_FromZero(text) ==
    (IF contains_keywords(text, CODE_KEYWORDS) THEN 1 ELSE 0)
  + (IF contains_keywords(text, MATH_KEYWORDS) THEN 1 ELSE 0)
  + (IF contains_keywords(text, REASONING_KEYWORDS) THEN 1 ELSE 0)

\* a rating whose length steps look at word_count alone
assess_complexity_WordsOnly(text) ==
    LET word_count == count_words(text)
        c1 == 1 + (IF word_count > 500 THEN 1 ELSE 0)
        c2 == c1 + (IF word_count > 1000 THEN 1 ELSE 0)
        requirement_count ==
            (IF contains_keywords(text, CODE_KEYWORDS) THEN 1 ELSE 0)
          + (IF contains_keywords(text, MATH_KEYWORDS) THEN 1 ELSE 0)
          + (IF contains_keywords(text, REASONING_KEYWORDS) THEN 1 ELSE 0)
        c3 == c2 + (IF requirement_count >= 2 THEN 1 ELSE 0)
        c4 == c3 + (IF requirement_count >= 3 THEN 1 ELSE 0)
    IN  Min(c4, 5)

assess_complexity(text) ==
    LET word_count == count_words(text)
        token_count == estimate_tokens(text)
        c1 == 1 + (IF word_count > 500 \/ token_count > 750 THEN 1 ELSE 0)
        c2 == c1 + (IF word_count > 1000 \/ token_count > 1500 THEN 1 ELSE 0)
        requirement_count ==
            (IF contains_keywords(text, CODE_KEYWORDS) THEN 1 ELSE 0)
          + (IF contains_keywords(text, MATH_KEYWORDS) THEN 1 ELSE 0)
          + (IF contains_keywords(text, REASONING_KEYWORDS) THEN 1 ELSE 0)
        c3 == c2 + (IF requirement_count >= 2 THEN 1 ELSE 0)
        c4 == c3 + (IF requirement_count >= 3 THEN 1 ELSE 0)
    IN  Min(c4, 5)

analyze_requirements(prompt) ==
    LET token_count == estimate_tokens(prompt)
        needs_vision == contains_keywords(prompt, VISION_KEYWORDS)
        needs_code == contains_keywords(prompt, CODE_KEYWORDS)
        needs_math == contains_keywords(prompt, MATH_KEYWORDS)
        needs_creativity == contains_keywords(prompt, CREATIVE_KEYWORDS)
        needs_reasoning == contains_keywords(prompt, REASONING_KEYWORDS)
        d1 == IF needs_code THEN << <<"c","o","d","e">> >> ELSE <<>>
        d2 == IF needs_math THEN Append(d1, <<"m","a","t","h">>) ELSE d1
        d3 == IF needs_creativity THEN Append(d2, <<"c","r","e","a","t","i","v","e">>) ELSE d2
        d4 == IF needs_reasoning THEN Append(d3, <<"r","e","a","s","o","n","i","n","g">>) ELSE d3
    IN  [ token_count |-> token_count,
          word_count |-> count_words(prompt),
          needs_vision |-> needs_vision,
          needs_code |-> needs_code,
          needs_math |-> needs_math,
          needs_creativity |-> needs_creativity,
          needs_reasoning |-> needs_reasoning,
          complexity |-> assess_complexity(prompt),
          min_context_window |-> Max(token_count * 4, 1000),
          is_multimodal |-> needs_vision,
          domains |-> IF d4 = <<>> THEN << <<"g","e","n","e","r","a","l">> >> ELSE d4 ]

-----------------------------------------------------------------------------
(* Model descriptors: Python dicts with optional keys.  `present` holds    *)
(* the keys the dict has; a key that is absent holds its empty value.      *)

\* a lookup that reads the value of a key the dict does not have
TruthyNum_IgnoringPresence(model, key) == model[key] # 0

\* dict.get(key) is truthy: the key is there and its value is not 0, "" or []
TruthyNum(model, key) == key \in model.present /\ model[key] # 0

TruthyStr(model, key) == key \in model.present /\ model[key] # <<>>

\* model.get("capabilities", [])
Capabilities(model) ==
    IF "capabilities" \in model.present THEN model.capabilities ELSE {}

-----------------------------------------------------------------------------
(* ModelRegistry: `models` is the dict self.models *)

\* f"{provider}:{model_id}"
model_key(provider, model_id) == provider \o <<":">> \o model_id

\* self.models[model_key] = model_info: a new key is appended, an
\* existing key keeps its position and gets the new value
DictSet(models, key, info) ==
    IF \E i \in 1..Len(models) : models[i].key = key
    THEN [i \in 1..Len(models) |->
            IF models[i].key = key THEN [key |-> key, info |-> info] ELSE models[i]]
    ELSE Append(models, [key |-> key, info |-> info])

\* `not provider or not model_id`
MissingKey(model_info) ==
    ~TruthyStr(model_info, "provider") \/ ~TruthyStr(model_info, "model_id")

\* returns whether ValueError was raised and the dict afterwards
register_model(models, model_info) ==
    IF MissingKey(model_info)
    THEN [raised |-> TRUE, models |-> models]
    ELSE [raised |-> FALSE,
          models |-> DictSet(models,
                             model_key(model_info.provider, model_info.model_id),
                             model_info)]

RECURSIVE register_models_from_list(_, _)
register_models_from_list(models, models_list) ==
    IF models_list = <<>> THEN [raised |-> FALSE, models |-> models]
    ELSE LET first == register_model(models, Head(models_list))
         IN  IF first.raised THEN first
             ELSE register_models_from_list(first.models, Tail(models_list))

get_all_models(models) == [i \in 1..Len(models) |-> models[i].info]

TierListed(model, tier) ==
    /\ "tiers" \in model.present
    /\ model.tiers # {}
    /\ tier \in model.tiers

\* a tier filter that does not compare the tier asked for
get_models_by_tier_AnyTier(models, tier) ==
    SelectSeq(get_all_models(models),
              LAMBDA model : "tiers" \in model.present /\ model.tiers # {})

get_models_by_tier(models, tier) ==
    SelectSeq(get_all_models(models), LAMBDA model : TierListed(model, tier))

get_models_by_provider(models, provider) ==
    SelectSeq(get_all_models(models),
              LAMBDA model : "provider" \in model.present /\ model.provider = provider)

get_models_by_capability(models, capability) ==
    SelectSeq(get_all_models(models),
              LAMBDA model : /\ "capabilities" \in model.present
                             /\ model.capabilities # {}
                             /\ capability \in model.capabilities)

has_model(models, provider, model_id) ==
    \E i \in 1..Len(models) : models[i].key = model_key(provider, model_id)

\* stands for None where a descriptor is expected
NoModel == [present |-> {}]

\* the stored descriptor, or None (found = FALSE)
get_model(models, provider, model_id) ==
    LET key == model_key(provider, model_id)
    IN  IF \E i \in 1..Len(models) : models[i].key = key
        THEN [found |-> TRUE,
              info |-> models[CHOOSE i \in 1..Len(models) : models[i].key = key].info]
        ELSE [found |-> FALSE, info |-> NoModel]

-----------------------------------------------------------------------------
(* ModelScorer *)

weights ==
    [ vision |-> 50, context_window |-> 20, intelligence |-> 10, code |-> 25,
      math |-> 25, reasoning |-> 30, creativity |-> 15, speed |-> 15 ]

\* self.weights["provider"]
provider_weights == <<
    [provider |-> <<"o","p","e","n","a","i">>, domain |-> <<"c","o","d","e">>, bonus |-> 10],
    [provider |-> <<"a","n","t","h","r","o","p","i","c">>, domain |-> <<"r","e","a","s","o","n","i","n","g">>, bonus |-> 10],
    [provider |-> <<"a","n","t","h","r","o","p","i","c">>, domain |-> <<"c","r","e","a","t","i","v","i","t","y">>, bonus |-> 10],
    [provider |-> <<"v","e","r","t","e","x">>, domain |-> <<"m","a","t","h">>, bonus |-> 5],
    [provider |-> <<"x","a","i">>, domain |-> <<"r","e","a","s","o","n","i","n","g">>, bonus |-> 5] >>

HasProviderWeight(provider, domain) ==
    \E i \in 1..Len(provider_weights) :
        provider_weights[i].provider = provider /\ provider_weights[i].domain = domain

ProviderWeight(provider, domain) ==
    provider_weights[CHOOSE i \in 1..Len(provider_weights) :
        provider_weights[i].provider = provider /\ provider_weights[i].domain = domain].bonus

Abs(n) == IF n < 0 THEN -n ELSE n

NoTerm == [score |-> 0, reasons |-> <<>>]

\* Each block of score_model adds to `score` and appends to `reasons`
\* independently of what the blocks before it did; a term is one block's
\* contribution.

\* context window check
ContextTerm(model, requirements) ==
    IF TruthyNum(model, "context_window")
       /\ model.context_window >= requirements.min_context_window
    THEN [score |-> weights.context_window, reasons |-> <<>>]
    ELSE IF TruthyNum(model, "context_window")
            /\ model.context_window < requirements.min_context_window
    THEN [score |-> -((weights.context_window * 3) \div 2),
          reasons |-> << <<"l","i","m","i","t","e","d"," ","c","o","n","t","e","x","t"," ","w","i","n","d","o","w">> >>]
    ELSE NoTerm

\* vision capability
VisionTerm(model, requirements) ==
    IF requirements.needs_vision /\ "vision" \in Capabilities(model)
    THEN [score |-> weights.vision, reasons |-> << <<"s","u","p","p","o","r","t","s"," ","i","m","a","g","e"," ","a","n","a","l","y","s","i","s">> >>]
    ELSE NoTerm

\* a rating that rewards closeness to the complexity in both directions
IntelligenceTerm_Closeness(model, requirements) ==
    IF ~TruthyNum(model, "intelligence") THEN NoTerm
    ELSE [score |-> 20 - Abs(model.intelligence - requirements.complexity)
                            * weights.intelligence,
          reasons |-> <<>>]

\* intelligence match for complexity
IntelligenceTerm(model, requirements) ==
    IF ~TruthyNum(model, "intelligence") THEN NoTerm
    ELSE LET intelligence_match == model.intelligence - requirements.complexity
         IN  IF intelligence_match >= 0
             THEN [score |-> intelligence_match * weights.intelligence + 20,
                   reasons |-> IF intelligence_match > 1
                               THEN << <<"h","i","g","h"," ","i","n","t","e","l","l","i","g","e","n","c","e"," ","r","a","t","i","n","g"," ","(">>
                                       \o IntToStr(model.intelligence) \o <<"/","5",")">> >>
                               ELSE <<>>]
             ELSE [score |-> -((Abs(intelligence_match) * weights.intelligence * 3) \div 2),
                   reasons |-> << <<"l","o","w","e","r"," ","i","n","t","e","l","l","i","g","e","n","c","e"," ","r","a","t","i","n","g"," ","(">>
                                  \o IntToStr(model.intelligence) \o <<"/","5",")">> >>]

\* task-specific capability bonuses
CodeTerm(model, requirements) ==
    IF requirements.needs_code /\ "code" \in Capabilities(model)
    THEN [score |-> weights.code, reasons |-> << <<"s","t","r","o","n","g"," ","c","o","d","e"," ","c","a","p","a","b","i","l","i","t","i","e","s">> >>]
    ELSE NoTerm

MathTerm(model, requirements) ==
    IF requirements.needs_math /\ TruthyNum(model, "intelligence")
       /\ model.intelligence >= 4
    THEN [score |-> weights.math, reasons |-> << <<"s","t","r","o","n","g"," ","m","a","t","h"," ","c","a","p","a","b","i","l","i","t","i","e","s">> >>]
    ELSE NoTerm

ReasoningTerm(model, requirements) ==
    IF requirements.needs_reasoning /\ "reasoning" \in Capabilities(model)
    THEN [score |-> weights.reasoning,
          reasons |-> << <<"s","p","e","c","i","a","l","i","z","e","d"," ","r","e","a","s","o","n","i","n","g"," ","c","a","p","a","b","i","l","i","t","i","e","s">> >>]
    ELSE NoTerm

CreativityTerm(model, requirements) ==
    IF requirements.needs_creativity /\ "creativity" \in Capabilities(model)
    THEN [score |-> weights.creativity, reasons |-> << <<"c","r","e","a","t","i","v","e"," ","c","a","p","a","b","i","l","i","t","i","e","s">> >>]
    ELSE NoTerm

\* speed bonus for less complex tasks
SpeedTerm(model, requirements) ==
    IF requirements.complexity <= 3 /\ TruthyNum(model, "speed") /\ model.speed >= 4
    THEN [score |-> weights.speed,
          reasons |-> << <<"f","a","s","t"," ","r","e","s","p","o","n","s","e"," ","t","i","m","e","s"," ","(">>
                         \o IntToStr(model.speed) \o <<"/","5",")">> >>]
    ELSE NoTerm

\* provider-specific bonus for one domain
ProviderTerm(model, domain) ==
    IF "provider" \in model.present /\ HasProviderWeight(model.provider, domain)
    THEN [score |-> ProviderWeight(model.provider, domain),
          reasons |-> << model.provider \o <<"'","s"," ","s","t","r","e","n","g","t","h"," ","i","n"," ">> \o domain >>]
    ELSE NoTerm

\* the terms with the provider-specific bonuses applied first
ScoreTerms_ProviderFirst(model, requirements) ==
    [d \in 1..Len(requirements.domains) |->
            ProviderTerm(model, requirements.domains[d])]
    \o << ContextTerm(model, requirements),
          VisionTerm(model, requirements),
          IntelligenceTerm(model, requirements),
          CodeTerm(model, requirements),
          MathTerm(model, requirements),
          ReasoningTerm(model, requirements),
          CreativityTerm(model, requirements),
          SpeedTerm(model, requirements) >>

\* the terms in the order score_model applies them
ScoreTerms(model, requirements) ==
    << ContextTerm(model, requirements),
       VisionTerm(model, requirements),
       IntelligenceTerm(model, requirements),
       CodeTerm(model, requirements),
       MathTerm(model, requirements),
       ReasoningTerm(model, requirements),
       CreativityTerm(model, requirements),
       SpeedTerm(model, requirements) >>
    \o [d \in 1..Len(requirements.domains) |->
            ProviderTerm(model, requirements.domains[d])]

RECURSIVE SumScores(_, _)
SumScores(terms, n) ==
    IF n = 0 THEN 0 ELSE SumScores(terms, n - 1) + terms[n].score

RECURSIVE ConcatReasons(_, _)
ConcatReasons(terms, n) ==
    IF n = 0 THEN <<>> ELSE ConcatReasons(terms, n - 1) \o terms[n].reasons

\* a scorer without the early return for a missing vision capability
score_model_NoDisqualification(model, requirements) ==
    [score |-> SumScores(ScoreTerms(model, requirements),
                         8 + Len(requirements.domains)),
     reasons |-> ConcatReasons(ScoreTerms(model, requirements),
                               8 + Len(requirements.domains))]

\* a scorer whose disqualification score is -100
score_model_MildSentinel(model, requirements) ==
    IF requirements.needs_vision /\ "vision" \notin Capabilities(model)
    THEN [score |-> -100, reasons |-> << <<"l","a","c","k","s"," ","r","e","q","u","i","r","e","d"," ","v","i","s","i","o","n"," ","c","a","p","a","b","i","l","i","t","y">> >>]
    ELSE [score |-> SumScores(ScoreTerms(model, requirements),
                              8 + Len(requirements.domains)),
          reasons |-> ConcatReasons(ScoreTerms(model, requirements),
                                    8 + Len(requirements.domains))]

score_model(model, requirements) ==
    IF requirements.needs_vision /\ "vision" \notin Capabilities(model)
    THEN [score |-> -9999, reasons |-> << <<"l","a","c","k","s"," ","r","e","q","u","i","r","e","d"," ","v","i","s","i","o","n"," ","c","a","p","a","b","i","l","i","t","y">> >>]
    ELSE [score |-> SumScores(ScoreTerms(model, requirements),
                              8 + Len(requirements.domains)),
          reasons |-> ConcatReasons(ScoreTerms(model, requirements),
                                    8 + Len(requirements.domains))]

\* an explanation that joins every reason with ", "
generate_explanation_CommaOnly(model, reasons) ==
    LET display_name ==
            IF TruthyStr(model, "display_name") THEN model.display_name
            ELSE IF "model_id" \in model.present THEN model.model_id
            ELSE <<"N","o","n","e">>
    IN  <<"S","e","l","e","c","t","e","d"," ">> \o display_name \o <<" ","b","e","c","a","u","s","e"," ","i","t"," ">>
        \o (IF reasons # <<>> THEN Join(reasons, <<","," ">>)
            ELSE <<"i","s"," ","w","e","l","l","-","s","u","i","t","e","d"," ","f","o","r"," ","g","e","n","e","r","a","l"," ","t","a","s","k","s">>) \o <<".">>

generate_explanation(model, reasons) ==
    LET display_name ==
            IF TruthyStr(model, "display_name") THEN model.display_name
            ELSE IF "model_id" \in model.present THEN model.model_id
            ELSE <<"N","o","n","e">>
        explanation == <<"S","e","l","e","c","t","e","d"," ">> \o display_name \o <<" ","b","e","c","a","u","s","e"," ","i","t"," ">>
        body ==
            IF reasons # <<>>
            THEN IF Len(reasons) = 1 THEN reasons[1]
                 ELSE Join(SubSeq(reasons, 1, Len(reasons) - 1), <<","," ">>)
                      \o <<" ","a","n","d"," ">> \o reasons[Len(reasons)]
            ELSE <<"i","s"," ","w","e","l","l","-","s","u","i","t","e","d"," ","f","o","r"," ","g","e","n","e","r","a","l"," ","t","a","s","k","s">>
    IN  explanation \o body \o <<".">>

-----------------------------------------------------------------------------
(* GPToggle: the recommendation orchestrator *)

AllKeys ==
    {"provider", "model_id", "display_name", "capabilities", "tiers",
     "context_window", "intelligence", "speed"}

\* a descriptor dict with every key present
Model(provider, model_id, display_name, capabilities, tiers, context_window, intelligence, speed) ==
    [ present |-> AllKeys, provider |-> provider, model_id |-> model_id,
      display_name |-> display_name, capabilities |-> capabilities,
      tiers |-> tiers, context_window |-> context_window,
      intelligence |-> intelligence, speed |-> speed ]

\* the built-in fallback models of register_fallback_models
Gpt35Turbo ==
    Model(<<"o","p","e","n","a","i">>, <<"g","p","t","-","3",".","5","-","t","u","r","b","o">>, <<"G","P","T","-","3",".","5"," ","T","u","r","b","o">>,
          {"text", "code"}, {"free"}, 16000, 3, 4)

ClaudeInstant ==
    Model(<<"a","n","t","h","r","o","p","i","c">>, <<"c","l","a","u","d","e","-","i","n","s","t","a","n","t","-","1">>, <<"C","l","a","u","d","e"," ","I","n","s","t","a","n","t">>,
          {"text", "reasoning"}, {"free"}, 16000, 3, 4)

\* entries of sample_models
Gpt4o ==
    Model(<<"o","p","e","n","a","i">>, <<"g","p","t","-","4","o">>, <<"G","P","T","-","4","o">>,
          {"text", "vision", "code", "reasoning", "creativity"},
          {"standard"}, 128000, 5, 4)

Claude3Sonnet ==
    Model(<<"a","n","t","h","r","o","p","i","c">>, <<"c","l","a","u","d","e","-","3","-","s","o","n","n","e","t">>, <<"C","l","a","u","d","e"," ","3"," ","S","o","n","n","e","t">>,
          {"text", "vision", "reasoning", "creativity"},
          {"standard"}, 200000, 4, 4)

Grok2 ==
    Model(<<"x","a","i">>, <<"g","r","o","k","-","2">>, <<"G","r","o","k"," ","2">>,
          {"text", "code", "reasoning"}, {"standard"}, 130000, 4, 4)

\* the custom model of examples/example_v2.py, which has no "tiers" key
CustomModel ==
    [Model(<<"c","u","s","t","o","m">>, <<"m","y","-","f","i","n","e","-","t","u","n","e","d","-","m","o","d","e","l">>, <<"M","y"," ","F","i","n","e","-","t","u","n","e","d"," ","M","o","d","e","l">>,
           {"text", "code", "domain-specific"}, {}, 8000, 4, 5)
        EXCEPT !.present = @ \ {"tiers"}]

\* gpt-4o as examples/example_v2.py registers it again
Gpt4oUpdated ==
    [Gpt4o EXCEPT !.capabilities = @ \cup {"domain-specific"}]

\* a small model rated below the complexity of demanding requests
LowRated ==
    Model(<<"l","o","c","a","l">>, <<"t","i","n","y","-","1","b">>, <<"T","i","n","y"," ","1","B">>, {"text"}, {"premium"}, 512, 2, 5)

ModelCatalog ==
    {Gpt35Turbo, ClaudeInstant, Gpt4o, Gpt4oUpdated, Claude3Sonnet, Grok2, CustomModel,
     LowRated}

\* the prompts the callers send
Prompts ==
    { <<>>,
      <<"W","h","a","t"," ","i","s"," ","2","+","2","?">>,
      <<"D","e","s","c","r","i","b","e"," ","w","h","a","t"," ","i","s"," ","h","a","p","p","e","n","i","n","g"," ","i","n"," ","t","h","i","s"," ","i","m","a","g","e">>,
      <<"E","x","p","l","a","i","n"," ","t","h","i","s"," ","p","a","r","a","g","r","a","p","h">>,
      <<"D","e","b","u","g"," ","t","h","i","s"," ","P","y","t","h","o","n"," ","f","u","n","c","t","i","o","n">>,
      <<"S","o","l","v","e"," ","t","h","e"," ","e","q","u","a","t","i","o","n"," ","s","t","e","p"," ","b","y"," ","s","t","e","p"," ","a","n","d"," ","e","x","p","l","a","i","n"," ","t","h","e"," ","a","l","g","o","r","i","t","h","m">> }

\* analyze_requirements on each of Prompts, computed once
Analyzed == [prompt \in Prompts |-> analyze_requirements(prompt)]

\* self.analyzer.analyze_requirements(prompt), looked up
Requirements(prompt) == Analyzed[prompt]

\* score_model on each descriptor and prompt, computed once
Scored ==
    [model \in ModelCatalog, prompt \in Prompts |-> score_model(model, Analyzed[prompt])]

\* self.scorer.score_model(model, requirements), looked up
ScoreOf(model, prompt) == Scored[model, prompt]

\* one scored_models entry per model, in the order of `models`
ScoreEach(models, prompt) ==
    [i \in 1..Len(models) |->
        [model |-> models[i],
         score |-> ScoreOf(models[i], prompt).score,
         reasons |-> ScoreOf(models[i], prompt).reasons]]

\* an unstable insertion: an entry goes behind entries with an equal score
InsertByScore_Unstable(entry, sorted) ==
    LET k == Cardinality({i \in 1..Len(sorted) : sorted[i].score >= entry.score})
    IN  SubSeq(sorted, 1, k) \o <<entry>> \o SubSeq(sorted, k + 1, Len(sorted))

\* list.sort(key=score, reverse=True) is stable: an entry goes behind every
\* entry with a higher score and ahead of later entries with an equal score
InsertByScore(entry, sorted) ==
    LET k == Cardinality({i \in 1..Len(sorted) : sorted[i].score > entry.score})
    IN  SubSeq(sorted, 1, k) \o <<entry>> \o SubSeq(sorted, k + 1, Len(sorted))

RECURSIVE SortFrom(_, _)
SortFrom(scored_models, i) ==
    IF i > Len(scored_models) THEN <<>>
    ELSE With(LAMBDA sorted : InsertByScore(scored_models[i], sorted),
              SortFrom(scored_models, i + 1))

SortByScore(scored_models) == SortFrom(scored_models, 1)

\* the requirements slot of a recommendation that carries none
NoRequirements ==
    [ token_count |-> 0, word_count |-> 0, needs_vision |-> FALSE,
      needs_code |-> FALSE, needs_math |-> FALSE, needs_creativity |-> FALSE,
      needs_reasoning |-> FALSE, complexity |-> 0, min_context_window |-> 0,
      is_multimodal |-> FALSE, domains |-> <<>> ]

FallbackRecommendation ==
    [ present |-> {"provider", "model", "reason"},
      provider |-> <<"o","p","e","n","a","i">>,
      model |-> <<"g","p","t","-","3",".","5","-","t","u","r","b","o">>,
      reason |-> <<"N","o"," ","e","l","i","g","i","b","l","e"," ","m","o","d","e","l","s"," ","f","o","u","n","d",","," ","u","s","i","n","g"," ","f","a","l","l","b","a","c","k">>,
      requirements |-> NoRequirements,
      score |-> 0 ]

\* options is [has_tier, tier]: `"tier" in options` and options["tier"]
EligibleModels(models, options) ==
    IF options.has_tier THEN get_models_by_tier(models, options.tier)
    ELSE get_all_models(models)

\* a recommend_model that also falls back when the best score is below zero
recommend_model_FallbackBelowZero(models, prompt, options) ==
    LET eligible == EligibleModels(models, options)
        Selected(scored_models) ==
            LET selected == scored_models[1]
            IN  IF selected.score < 0 THEN FallbackRecommendation
                ELSE [ present |-> {"provider", "model", "reason", "requirements", "score"},
                       provider |-> selected.model.provider,
                       model |-> selected.model.model_id,
                       reason |-> generate_explanation(selected.model, selected.reasons),
                       requirements |-> Requirements(prompt),
                       score |-> selected.score ]
    IN  IF eligible = <<>> THEN FallbackRecommendation
        ELSE With(Selected, SortByScore(ScoreEach(eligible, prompt)))

recommend_model(models, prompt, options) ==
    LET requirements == Requirements(prompt)
        eligible == EligibleModels(models, options)
    IN  IF eligible = <<>> THEN FallbackRecommendation
        ELSE LET Selected(scored_models) ==
                     LET selected == scored_models[1]
                     IN  [ present |-> {"provider", "model", "reason", "requirements", "score"},
                           provider |-> selected.model.provider,
                           model |-> selected.model.model_id,
                           reason |-> generate_explanation(selected.model, selected.reasons),
                           requirements |-> requirements,
                           score |-> selected.score ]
             IN  With(Selected, SortByScore(ScoreEach(eligible, prompt)))

\* one entry of the "recommendations" list
Recommendation(scored) ==
    LET has_strength == "intelligence" \in scored.model.present
    IN  [ present |-> {"provider", "model", "reason"}
                      \cup (IF has_strength THEN {"strength"} ELSE {}),
          provider |-> scored.model.provider,
          model |-> scored.model.model_id,
          reason |-> generate_explanation(scored.model, scored.reasons),
          strength |-> IF has_strength
                       THEN <<"I","n","t","e","l","l","i","g","e","n","c","e",":"," ">>
                            \o IntToStr(scored.model.intelligence) \o <<"/","5">>
                       ELSE <<>> ]

\* a slice that keeps the trailing three entries, scored_models[-3:]
TopModels_Trailing(scored_models) ==
    [i \in 1..Min(3, Len(scored_models)) |->
        With(Recommendation,
             scored_models[Len(scored_models) - Min(3, Len(scored_models)) + i])]

\* scored_models[:3], formatted
TopModels(scored_models) ==
    [i \in 1..Min(3, Len(scored_models)) |->
        With(Recommendation, scored_models[i])]

\* the "recommendations" list of get_task_recommendations
TaskRecommendations(models, prompt, options) ==
    With(TopModels, SortByScore(ScoreEach(EligibleModels(models, options), prompt)))

\* get_task_recommendations run without interruption: both registry reads
\* see the same dict
get_task_recommendations(models, prompt, options) ==
    [ overall |-> recommend_model(models, prompt, options),
      recommendations |-> TaskRecommendations(models, prompt, options) ]

-----------------------------------------------------------------------------
(* Inputs *)

NoOptions == [has_tier |-> FALSE, tier |-> ""]

Options ==
    {NoOptions} \cup {[has_tier |-> TRUE, tier |-> t] : t \in {"free", "standard", "premium"}}

\* the most models a registry holds
MaxModels == 3

\* whether registering model_info keeps the registry within MaxModels
Fits(model_info) ==
    \/ Len(registry) < MaxModels
    \/ /\ ~MissingKey(model_info)
       /\ has_model(registry, model_info.provider, model_info.model_id)

-----------------------------------------------------------------------------
(* GPToggle driven by one caller *)

\* GPToggle.__init__: an empty ModelRegistry, then register_fallback_models;
\* claude-instant-1 is registered when api_keys has "anthropic"
register_fallback_models(has_anthropic_key) ==
    LET first == register_model(<<>>, Gpt35Turbo).models
    IN  IF has_anthropic_key THEN register_model(first, ClaudeInstant).models
        ELSE first

\* history: `latest` after model_info was accepted by register_model
Accepted(seen, model_info) ==
    {e \in seen : ~(e.provider = model_info.provider /\ e.model_id = model_info.model_id)}
    \cup {[provider |-> model_info.provider, model_id |-> model_info.model_id,
            info |-> model_info]}

\* no Config object and no user profile
NoConfig == [enabled_providers |-> <<>>]

NoProfile == [modules |-> <<>>]

Idle ==
    /\ config = NoConfig
    /\ profile = NoProfile
    /\ before = <<>>
    /\ latest = {}
    /\ pc = "idle"
    /\ local = [op |-> "none"]
    /\ during = {}

Init ==
    /\ \E has_anthropic_key \in BOOLEAN :
        registry = register_fallback_models(has_anthropic_key)
    /\ call = [op |-> "init"]
    /\ result = [raised |-> FALSE]
    /\ Idle

\* GPToggle.register_model, ModelRegistry.register_model
RegisterModel(model_info) ==
    /\ Fits(model_info)
    /\ LET done == register_model(registry, model_info)
       IN  /\ registry' = done.models
           /\ result' = [raised |-> done.raised]
    /\ call' = [op |-> "register_model", model_info |-> model_info]
    /\ before' = registry
    /\ latest' = IF MissingKey(model_info) THEN latest ELSE Accepted(latest, model_info)
    /\ UNCHANGED <<config, profile, pc, local, during>>

\* a recommend_model that reverses the registry's entries while ranking
RecommendModel_Reordering(prompt, options) ==
    /\ call' = [op |-> "recommend_model", prompt |-> prompt, options |-> options]
    /\ result' = recommend_model(registry, prompt, options)
    /\ before' = registry
    /\ registry' = [i \in 1..Len(registry) |-> registry[Len(registry) + 1 - i]]
    /\ UNCHANGED <<config, profile, latest, pc, local, during>>

\* GPToggle.recommend_model
RecommendModel(prompt, options) ==
    /\ call' = [op |-> "recommend_model", prompt |-> prompt, options |-> options]
    /\ result' = recommend_model(registry, prompt, options)
    /\ before' = registry
    /\ UNCHANGED <<config, profile, registry, latest, pc, local, during>>

\* GPToggle.get_task_recommendations
GetTaskRecommendations(prompt, options) ==
    /\ call' = [op |-> "get_task_recommendations", prompt |-> prompt, options |-> options]
    /\ result' = get_task_recommendations(registry, prompt, options)
    /\ before' = registry
    /\ UNCHANGED <<config, profile, registry, latest, pc, local, during>>

Next ==
    \/ \E model_info \in ModelCatalog : RegisterModel(model_info)
    \/ \E prompt \in Prompts, options \in Options : RecommendModel(prompt, options)
    \/ \E prompt \in Prompts, options \in Options : GetTaskRecommendations(prompt, options)

Spec == Init /\ [][Next]_vars

-----------------------------------------------------------------------------
(* ModelRegistry on its own *)

\* a descriptor with nothing but its identity and an intelligence rating
Plain(provider, model_id, intelligence) ==
    Model(provider, model_id, <<>>, {"text"}, {"free"}, 0, intelligence, 0)

LocalLlama8b == Plain(<<"l","o","c","a","l">>, <<"l","l","a","m","a",":","8","b">>, 3)

LocalLlamaSplit == Plain(<<"l","o","c","a","l",":","l","l","a","m","a">>, <<"8","b">>, 2)

Local8b == Plain(<<"l","o","c","a","l">>, <<"8","b">>, 2)

Tiny1 == Plain(<<"l","o","c","a","l">>, <<"t","i","n","y">>, 1)

Tiny2 == Plain(<<"l","o","c","a","l">>, <<"t","i","n","y">>, 2)

\* "provider" is the empty string
EmptyProvider == Plain(<<>>, <<"t","i","n","y">>, 1)

\* the dict has no "model_id" key
NoModelId == [Plain(<<"l","o","c","a","l">>, <<>>, 1) EXCEPT !.present = @ \ {"model_id"}]

RegistryInputs ==
    {LocalLlama8b, LocalLlamaSplit, Local8b, Tiny1, Tiny2, EmptyProvider, NoModelId}

\* the longest list given to register_models_from_list
MaxBatch == 2

ModelLists ==
    UNION {[1..n -> RegistryInputs] : n \in 0..MaxBatch}

QueryPairs ==
    { <<m.provider, m.model_id>> : m \in RegistryInputs \ {EmptyProvider, NoModelId} }

\* history: `latest` after the accepted front part of models_list
RECURSIVE AcceptedAll(_, _)
AcceptedAll(seen, models_list) ==
    IF models_list = <<>> \/ MissingKey(Head(models_list)) THEN seen
    ELSE AcceptedAll(Accepted(seen, Head(models_list)), Tail(models_list))

\* ModelRegistry.__init__
RegistryInit ==
    /\ registry = <<>>
    /\ call = [op |-> "init"]
    /\ result = [raised |-> FALSE]
    /\ Idle

\* ModelRegistry.register_models_from_list
RegisterModelsFromList(models_list) ==
    /\ LET done == register_models_from_list(registry, models_list)
       IN  /\ Len(done.models) <= MaxModels
           /\ registry' = done.models
           /\ result' = [raised |-> done.raised]
    /\ call' = [op |-> "register_models_from_list", models_list |-> models_list]
    /\ before' = registry
    /\ latest' = AcceptedAll(latest, models_list)
    /\ UNCHANGED <<config, profile, pc, local, during>>

\* ModelRegistry.has_model
HasModel(provider, model_id) ==
    /\ call' = [op |-> "has_model", provider |-> provider, model_id |-> model_id]
    /\ result' = [found |-> has_model(registry, provider, model_id)]
    /\ before' = registry
    /\ UNCHANGED <<config, profile, registry, latest, pc, local, during>>

\* ModelRegistry.get_model
GetModel(provider, model_id) ==
    /\ call' = [op |-> "get_model", provider |-> provider, model_id |-> model_id]
    /\ result' = get_model(registry, provider, model_id)
    /\ before' = registry
    /\ UNCHANGED <<config, profile, registry, latest, pc, local, during>>

\* ModelRegistry.get_all_models
GetAllModels ==
    /\ call' = [op |-> "get_all_models"]
    /\ result' = [models |-> get_all_models(registry)]
    /\ before' = registry
    /\ UNCHANGED <<config, profile, registry, latest, pc, local, during>>

RegistryNext ==
    \/ \E model_info \in RegistryInputs : RegisterModel(model_info)
    \/ \E models_list \in ModelLists : RegisterModelsFromList(models_list)
    \/ \E pair \in QueryPairs : HasModel(pair[1], pair[2])
    \/ \E pair \in QueryPairs : GetModel(pair[1], pair[2])
    \/ GetAllModels

RegistrySpec == RegistryInit /\ [][RegistryNext]_vars

-----------------------------------------------------------------------------
(* Properties of the registry (specification RegistrySpec) *)

\* a descriptor whose provider or model_id is missing or empty
Invalid(model_info) ==
    \/ "provider" \notin model_info.present
    \/ model_info.provider = <<>>
    \/ "model_id" \notin model_info.present
    \/ model_info.model_id = <<>>

\* the (provider, model_id) pair was registered
WasRegistered(provider, model_id) ==
    \E e \in latest : e.provider = provider /\ e.model_id = model_id

\* C3: get_all_models() holds exactly one entry for each (provider, model_id)
\* registered so far, that entry is the descriptor registered last for the
\* pair, and registering a valid descriptor never raises.
C3_OneEntryPerRegisteredPair ==
    LET all == get_all_models(registry)
    IN  /\ Len(all) = Cardinality(latest)
        /\ \A e \in latest :
            /\ Cardinality({i \in 1..Len(all) :
                    all[i].provider = e.provider /\ all[i].model_id = e.model_id}) = 1
            /\ \E i \in 1..Len(all) : all[i] = e.info
        /\ (call.op = "register_model" /\ ~Invalid(call.model_info)) => ~result.raised

\* C4: the registry is keyed by the pair (provider, model_id): has_model and
\* get_model find only pairs that were registered, and registering one pair
\* never replaces the descriptor of another.
C4_KeyedByPair ==
    /\ (call.op = "has_model" /\ result.found)
            => WasRegistered(call.provider, call.model_id)
    /\ (call.op = "get_model" /\ result.found)
            => /\ WasRegistered(call.provider, call.model_id)
               /\ result.info.provider = call.provider
               /\ result.info.model_id = call.model_id
    /\ \A e \in latest :
            get_model(registry, e.provider, e.model_id) = [found |-> TRUE, info |-> e.info]

\* C5: a registration call raises exactly when a descriptor it is given has a
\* missing or empty provider or model_id, and a call that raises leaves the
\* registry as it was, for register_model and register_models_from_list.
C5_FailedRegistrationChangesNothing ==
    /\ call.op = "register_model"
            => /\ result.raised <=> Invalid(call.model_info)
               /\ result.raised => registry = before
    /\ call.op = "register_models_from_list"
            => /\ result.raised <=>
                    \E i \in 1..Len(call.models_list) : Invalid(call.models_list[i])
               /\ result.raised => registry = before

-----------------------------------------------------------------------------
(* InputAnalyzer on its own *)

Words ==
    { <<"i","m","a","g","e">>, <<"g","r","a","p","h">>, <<"p","a","r","a","g","r","a","p","h">>, <<"s","c","r","i","p","t">>, <<"d","e","s","c","r","i","p","t","i","o","n">>,
      <<"c","o","d","e">>, <<"E","x","p","l","a","i","n">>, <<"s","o","l","v","e">>, <<"p","o","e","m">>, <<"2","+","2","?">> }

\* the most words of a text given to the analyzer
MaxWords == 2

\* the words of each sequence, separated by single spaces
Texts ==
    { Join(ws, <<" ">>) : ws \in UNION {[1..n -> Words] : n \in 0..MaxWords} }

\* InputAnalyzer.__init__, and a caller holding the text it will pass
AnalyzerInit ==
    /\ registry = <<>>
    /\ \E prompt \in Texts : call = [op |-> "init", prompt |-> prompt]
    /\ result = [raised |-> FALSE]
    /\ Idle

\* InputAnalyzer.analyze_requirements
AnalyzeRequirements ==
    /\ call.op = "init"
    /\ call' = [op |-> "analyze_requirements", prompt |-> call.prompt]
    /\ result' = analyze_requirements(call.prompt)
    /\ UNCHANGED <<config, profile, registry, before, latest, pc, local, during>>

AnalyzerNext == AnalyzeRequirements

AnalyzerSpec == AnalyzerInit /\ [][AnalyzerNext]_vars

\* keyword stands in text as a whole word or phrase: no \w character
\* directly before or after the occurrence
WholeWordIn(text, keyword) ==
    \E i \in 0..(Len(text) - Len(keyword)) :
        /\ \A j \in 1..Len(keyword) : text[i + j] = keyword[j]
        /\ i = 0 \/ ~IsWordChar(text[i])
        /\ i + Len(keyword) = Len(text) \/ ~IsWordChar(text[i + Len(keyword) + 1])

AnyWholeWord(text, keywords) ==
    \E k \in 1..Len(keywords) : WholeWordIn(ToLower(text), ToLower(keywords[k]))

\* C10: analyze_requirements sets a needs_X flag only if a keyword of that
\* category stands in the text as a whole word or phrase, never merely as a
\* fragment of a longer word.
C10_WholeWordKeywords ==
    call.op = "analyze_requirements"
    => /\ result.needs_vision => AnyWholeWord(call.prompt, VISION_KEYWORDS)
       /\ result.needs_code => AnyWholeWord(call.prompt, CODE_KEYWORDS)
       /\ result.needs_math => AnyWholeWord(call.prompt, MATH_KEYWORDS)
       /\ result.needs_creativity => AnyWholeWord(call.prompt, CREATIVE_KEYWORDS)
       /\ result.needs_reasoning => AnyWholeWord(call.prompt, REASONING_KEYWORDS)


\* C16: analyze_requirements returns a result for every text, and for the
\* empty string that result has word_count 0, complexity 1, domains
\* ["general"] and every needs_X flag false.
C16_EmptyStringIsGeneral ==
    call.op = "analyze_requirements"
    => /\ result.word_count \in Nat
       /\ result.complexity \in 1..5
       /\ result.domains # <<>>
       /\ call.prompt = <<>>
            => /\ result.word_count = 0
               /\ result.complexity = 1
               /\ result.domains = << <<"g","e","n","e","r","a","l">> >>
               /\ ~result.needs_vision
               /\ ~result.needs_code
               /\ ~result.needs_math
               /\ ~result.needs_creativity
               /\ ~result.needs_reasoning

C16_Witness ==
    /\ call.op = "analyze_requirements"
    /\ call.prompt = <<>>
    /\ result.domains = << <<"g","e","n","e","r","a","l">> >>

-----------------------------------------------------------------------------
(* A recommendation call in one thread while another thread registers      *)
(* models.  Each access to self.registry.models is one step: CPython runs  *)
(* list(self.models.values()) and self.models[key] = value without         *)
(* releasing the interpreter lock, and the code takes no lock of its own.  *)

ConcurrentPrompts ==
    { <<"W","h","a","t"," ","i","s"," ","2","+","2","?">>, <<"D","e","s","c","r","i","b","e"," ","w","h","a","t"," ","i","s"," ","h","a","p","p","e","n","i","n","g"," ","i","n"," ","t","h","i","s"," ","i","m","a","g","e">> }

ConcurrentOptions == {NoOptions, [has_tier |-> TRUE, tier |-> "free"]}

InFlight == pc \in {"recommend", "overall", "alternates"}

\* the reader enters recommend_model
CallRecommendModel(prompt, options) ==
    /\ pc = "idle"
    /\ pc' = "recommend"
    /\ local' = [op |-> "recommend_model", prompt |-> prompt, options |-> options]
    /\ call' = [op |-> "recommend_model", prompt |-> prompt, options |-> options]
    /\ during' = {registry}
    /\ UNCHANGED <<config, profile, registry, result, before, latest>>

\* recommend_model reads the registry and computes its result from the copy
ReadAndRecommend ==
    /\ pc = "recommend"
    /\ pc' = "done"
    /\ result' = recommend_model(registry, local.prompt, local.options)
    /\ UNCHANGED <<config, profile, registry, call, before, latest, local, during>>

\* the reader enters get_task_recommendations
CallGetTaskRecommendations(prompt, options) ==
    /\ pc = "idle"
    /\ pc' = "overall"
    /\ local' = [op |-> "get_task_recommendations", prompt |-> prompt,
                 options |-> options]
    /\ call' = [op |-> "get_task_recommendations", prompt |-> prompt,
                options |-> options]
    /\ during' = {registry}
    /\ UNCHANGED <<config, profile, registry, result, before, latest>>

\* overall = self.recommend_model(prompt, options): the first registry read
ReadForOverall ==
    /\ pc = "overall"
    /\ pc' = "alternates"
    /\ local' = [op |-> local.op, prompt |-> local.prompt, options |-> local.options,
                 overall |-> recommend_model(registry, local.prompt, local.options)]
    /\ UNCHANGED <<config, profile, registry, call, result, before, latest, during>>

\* models = self.registry.get_...(): the second registry read, then the
\* scoring, the sort and the return
ReadForAlternates ==
    /\ pc = "alternates"
    /\ pc' = "done"
    /\ result' = [overall |-> local.overall,
                  recommendations |->
                      TaskRecommendations(registry, local.prompt, local.options)]
    /\ UNCHANGED <<config, profile, registry, call, before, latest, local, during>>

\* the caller takes the result
Return ==
    /\ pc = "done"
    /\ pc' = "idle"
    /\ local' = [op |-> "none"]
    /\ during' = {}
    /\ UNCHANGED <<config, profile, registry, call, result, before, latest>>

\* register_model in the other thread
ConcurrentRegisterModel(model_info) ==
    /\ Fits(model_info)
    /\ registry' = register_model(registry, model_info).models
    /\ during' = IF InFlight THEN during \cup {registry'} ELSE during
    /\ UNCHANGED <<config, profile, call, result, before, latest, pc, local>>

ConcurrentNext ==
    \/ \E prompt \in ConcurrentPrompts, options \in ConcurrentOptions :
            CallRecommendModel(prompt, options)
    \/ ReadAndRecommend
    \/ \E prompt \in ConcurrentPrompts, options \in ConcurrentOptions :
            CallGetTaskRecommendations(prompt, options)
    \/ ReadForOverall
    \/ ReadForAlternates
    \/ Return
    \/ \E model_info \in ModelCatalog : ConcurrentRegisterModel(model_info)

ConcurrentSpec == Init /\ [][ConcurrentNext]_vars

\* C6: a recommendation call that runs while register_model calls interleave
\* returns what it would return against one registry state that existed
\* during the call.
C6_ResultFromOneSnapshot ==
    pc = "done" =>
        \E models \in during :
            result = IF local.op = "recommend_model"
                     THEN recommend_model(models, local.prompt, local.options)
                     ELSE get_task_recommendations(models, local.prompt, local.options)

-----------------------------------------------------------------------------
(* Properties of the recommendation calls (specification Spec) *)

IsQuery == call.op \in {"recommend_model", "get_task_recommendations"}

\* the descriptors the last recommendation call had to choose from
Candidates == EligibleModels(registry, call.options)

NeedsVision == Requirements(call.prompt).needs_vision

HasVision(model) == "vision" \in Capabilities(model)

\* the registered descriptor a recommendation names
Named(recommendation) ==
    get_model(registry, recommendation.provider, recommendation.model).info

\* the recommendation recommend_model gave in the last call
Overall == IF call.op = "recommend_model" THEN result ELSE result.overall

\* the score score_model gives the i-th candidate for the last call's prompt
CandidateScore(i) == score_model(Candidates[i], Requirements(call.prompt)).score

\* the first candidate, in registry order, among those with the highest score
FirstBest ==
    CHOOSE i \in 1..Len(Candidates) :
        /\ \A j \in 1..Len(Candidates) : CandidateScore(j) <= CandidateScore(i)
        /\ \A j \in 1..(i - 1) : CandidateScore(j) < CandidateScore(i)

\* C1: when every candidate is disqualified (the request needs vision and no
\* candidate has the "vision" capability), recommend_model returns the
\* fallback recommendation, and never one carrying the sentinel score.
C1_AllDisqualifiedFallsBack ==
    (/\ call.op = "recommend_model"
     /\ Candidates # <<>>
     /\ NeedsVision
     /\ \A i \in 1..Len(Candidates) : ~HasVision(Candidates[i]))
    => /\ result.reason = <<"N","o"," ","e","l","i","g","i","b","l","e"," ","m","o","d","e","l","s"," ","f","o","u","n","d",","," ","u","s","i","n","g"," ","f","a","l","l","b","a","c","k">>
       /\ result.score # -9999

\* C2: for a request that needs vision, with a vision-capable descriptor
\* among the candidates, recommend_model returns a vision-capable descriptor
\* and no descriptor without "vision" is recommended, neither as the overall
\* recommendation nor in the alternates of get_task_recommendations.
C2_OnlyVisionModelsForVisionRequests ==
    (/\ IsQuery
     /\ NeedsVision
     /\ \E i \in 1..Len(Candidates) : HasVision(Candidates[i]))
    => /\ HasVision(Named(Overall))
       /\ call.op = "get_task_recommendations" =>
            \A k \in 1..Len(result.recommendations) :
                HasVision(Named(result.recommendations[k]))

\* C7: with an empty candidate set (no registered descriptor lists the
\* requested tier, or nothing is registered) recommend_model returns the
\* fixed fallback recommendation.
C7_EmptyCandidatesFallBack ==
    (/\ call.op = "recommend_model"
     /\ \A i \in 1..Len(registry) :
            /\ call.options.has_tier
            /\ call.options.tier \notin registry[i].info.tiers)
    => /\ result.present = {"provider", "model", "reason"}
       /\ result.provider = <<"o","p","e","n","a","i">>
       /\ result.model = <<"g","p","t","-","3",".","5","-","t","u","r","b","o">>
       /\ result.reason = <<"N","o"," ","e","l","i","g","i","b","l","e"," ","m","o","d","e","l","s"," ","f","o","u","n","d",","," ","u","s","i","n","g"," ","f","a","l","l","b","a","c","k">>

C7_Witness ==
    /\ call.op = "recommend_model"
    /\ call.options.has_tier
    /\ Len(registry) >= 2
    /\ \A i \in 1..Len(registry) : call.options.tier \notin registry[i].info.tiers
    /\ result.reason = <<"N","o"," ","e","l","i","g","i","b","l","e"," ","m","o","d","e","l","s"," ","f","o","u","n","d",","," ","u","s","i","n","g"," ","f","a","l","l","b","a","c","k">>

\* C8: recommend_model returns a candidate with the highest score, and among
\* several candidates with that score the one first in registry insertion
\* order.
C8_FirstRegisteredBestWins ==
    (call.op = "recommend_model" /\ Candidates # <<>>)
    => /\ result.provider = Candidates[FirstBest].provider
       /\ result.model = Candidates[FirstBest].model_id
       /\ result.score = CandidateScore(FirstBest)

C8_Witness ==
    /\ call.op = "recommend_model"
    /\ Len(Candidates) >= 2
    /\ \E j \in 1..Len(Candidates) :
            j # FirstBest /\ CandidateScore(j) = CandidateScore(FirstBest)
    /\ result.model = Candidates[FirstBest].model_id

-----------------------------------------------------------------------------
(* ModelScorer on its own *)

\* the optional keys of a descriptor
OptionalKeys == {"capabilities", "context_window", "intelligence", "speed"}

\* an anthropic descriptor that has every key but those in `absent`
ScorerModel(capabilities, intelligence, speed, absent) ==
    [Model(<<"a","n","t","h","r","o","p","i","c">>, <<"c","l","a","u","d","e","-","x">>, <<"C","l","a","u","d","e"," ","X">>, capabilities, {"free"}, 8000, intelligence, speed) EXCEPT !.present = @ \ absent]

ScorerModels ==
    { ScorerModel(capabilities, intelligence, speed, absent) :
        capabilities \in {{"text"}, {"text", "vision", "code"},
                          {"text", "reasoning", "creativity"}},
        intelligence \in 1..5,
        speed \in {2, 5},
        absent \in SUBSET OptionalKeys }

\* the requirements dict analyze_requirements builds from its flags
RequirementsOf(needs, complexity, min_context_window) ==
    LET d1 == IF "code" \in needs THEN << <<"c","o","d","e">> >> ELSE <<>>
        d2 == IF "math" \in needs THEN Append(d1, <<"m","a","t","h">>) ELSE d1
        d3 == IF "creativity" \in needs THEN Append(d2, <<"c","r","e","a","t","i","v","e">>) ELSE d2
        d4 == IF "reasoning" \in needs THEN Append(d3, <<"r","e","a","s","o","n","i","n","g">>) ELSE d3
    IN  [ token_count |-> min_context_window \div 4,
          word_count |-> 1,
          needs_vision |-> "vision" \in needs,
          needs_code |-> "code" \in needs,
          needs_math |-> "math" \in needs,
          needs_creativity |-> "creativity" \in needs,
          needs_reasoning |-> "reasoning" \in needs,
          complexity |-> complexity,
          min_context_window |-> min_context_window,
          is_multimodal |-> "vision" \in needs,
          domains |-> IF d4 = <<>> THEN << <<"g","e","n","e","r","a","l">> >> ELSE d4 ]

ScorerRequirements ==
    { RequirementsOf(needs, complexity, min_context_window) :
        needs \in { {}, {"vision"}, {"code"}, {"math"}, {"reasoning"},
                    {"creativity"}, {"code", "math", "reasoning"},
                    {"vision", "code", "math", "reasoning", "creativity"} },
        complexity \in 1..5,
        min_context_window \in {1000, 20000} }

\* descriptors of each provider of the provider table, and of one outside it
ProviderModels ==
    { [ScorerModel(capabilities, 3, 5, {}) EXCEPT !.provider = provider] :
        capabilities \in {{"text"}, {"text", "code", "reasoning", "creativity"}},
        provider \in { <<"o","p","e","n","a","i">>, <<"v","e","r","t","e","x">>, <<"x","a","i">>, <<"l","o","c","a","l">> } }

\* descriptors with a context window of 0 (as dall-e-3 has in the provider
\* catalog), below the floor of 1000, at it and above it
WindowModels ==
    { [ScorerModel({"text"}, 3, 2, {}) EXCEPT !.context_window = context_window] :
        context_window \in {0, 512, 1000, 20000} }

\* requirements whose caller wrote the domains itself
DomainRequirements ==
    { [RequirementsOf({"creativity", "reasoning"}, 2, 1000) EXCEPT !.domains = domains] :
        domains \in { << <<"c","r","e","a","t","i","v","i","t","y">>, <<"r","e","a","s","o","n","i","n","g">> >>,
                      << <<"r","e","a","s","o","n","i","n","g">>, <<"c","o","d","e">>, <<"c","r","e","a","t","i","v","i","t","y">> >> } }

\* the reasons score_model can give, as generate_explanation receives them
ReasonTexts ==
    { <<"s","u","p","p","o","r","t","s"," ","i","m","a","g","e"," ","a","n","a","l","y","s","i","s">>, <<"s","t","r","o","n","g"," ","c","o","d","e"," ","c","a","p","a","b","i","l","i","t","i","e","s">>,
      <<"a","n","t","h","r","o","p","i","c","'","s"," ","s","t","r","e","n","g","t","h"," ","i","n"," ","r","e","a","s","o","n","i","n","g">> }

\* the longest list of reasons given to generate_explanation
MaxReasons == 3

ReasonLists == UNION {[1..n -> ReasonTexts] : n \in 0..MaxReasons}

\* descriptors with and without a display name
NamedModels ==
    { Gpt4o, CustomModel,
      [Gpt4o EXCEPT !.display_name = <<>>],
      [Gpt4o EXCEPT !.present = @ \ {"display_name"}] }

\* a caller holding the arguments of one call of the scorer
ScorerInit ==
    /\ registry = <<>>
    /\ \/ \E model \in ScorerModels \cup ProviderModels \cup WindowModels,
             requirements \in ScorerRequirements \cup DomainRequirements :
            call = [op |-> "score_model", model |-> model,
                    requirements |-> requirements]
       \/ \E model \in NamedModels, reasons \in ReasonLists :
            call = [op |-> "generate_explanation", model |-> model,
                    reasons |-> reasons]
    /\ result = [raised |-> FALSE]
    /\ before = <<>>
    /\ latest = {}
    /\ pc = "called"
    /\ local = [op |-> "none"]
    /\ during = {}
    /\ config = NoConfig
    /\ profile = NoProfile

\* ModelScorer.score_model
ScoreModel ==
    /\ pc = "called"
    /\ call.op = "score_model"
    /\ result' = score_model(call.model, call.requirements)
    /\ pc' = "returned"
    /\ UNCHANGED <<config, profile, registry, call, before, latest, local, during>>

\* ModelScorer.generate_explanation
GenerateExplanation ==
    /\ pc = "called"
    /\ call.op = "generate_explanation"
    /\ result' = [explanation |-> generate_explanation(call.model, call.reasons)]
    /\ pc' = "returned"
    /\ UNCHANGED <<config, profile, registry, call, before, latest, local, during>>

ScorerNext == ScoreModel \/ GenerateExplanation

ScorerSpec == ScorerInit /\ [][ScorerNext]_vars

\* score_model has returned
ScoreReturned == pc = "returned" /\ call.op = "score_model"

\* C11: raising a descriptor's intelligence within 1..5, with every other
\* field and the requirements fixed, never lowers the score score_model
\* returns.
C11_IntelligenceNeverLowersScore ==
    (/\ ScoreReturned
     /\ "intelligence" \in call.model.present
     /\ call.model.intelligence \in 1..5)
    => \A higher \in (call.model.intelligence + 1)..5 :
          score_model([call.model EXCEPT !.intelligence = higher],
                      call.requirements).score >= result.score

\* a score below zero that a higher intelligence rating turns positive
C11_Witness ==
    /\ ScoreReturned
    /\ "intelligence" \in call.model.present
    /\ call.model.intelligence = 2
    /\ call.requirements.complexity = 4
    /\ result.score < 0
    /\ score_model([call.model EXCEPT !.intelligence = 5],
                   call.requirements).score > 0

\* C12: when the requirements need vision and "vision" is not among the
\* descriptor's capabilities, score_model returns the sentinel score (below
\* -1000) and the single reason "lacks required vision capability", whatever
\* the other fields of the descriptor are.
C12_MissingVisionGivesSentinel ==
    (/\ ScoreReturned
     /\ call.requirements.needs_vision
     /\ \/ "capabilities" \notin call.model.present
        \/ "vision" \notin call.model.capabilities)
    => /\ result.score < -1000
       /\ result.reasons = << <<"l","a","c","k","s"," ","r","e","q","u","i","r","e","d"," ","v","i","s","i","o","n"," ","c","a","p","a","b","i","l","i","t","y">> >>

\* a descriptor that would collect code, math and reasoning bonuses
C12_Witness ==
    /\ ScoreReturned
    /\ call.requirements.needs_vision
    /\ call.requirements.needs_reasoning
    /\ call.model.present = AllKeys
    /\ call.model.capabilities = {"text", "reasoning", "creativity"}
    /\ call.model.intelligence = 5
    /\ result.score = -9999

\* the positions in ScoreTerms of the terms that read an optional key
TermsReading(key) ==
    CASE key = "capabilities" -> {2, 4, 6, 7}
      [] key = "context_window" -> {1}
      [] key = "intelligence" -> {3, 5}
      [] key = "speed" -> {8}

\* the terms of the last score_model call that read no absent key
TermsKept ==
    LET terms == ScoreTerms(call.model, call.requirements)
        skipped == UNION {TermsReading(key) : key \in OptionalKeys \ call.model.present}
    IN  [k \in 1..Len(terms) |-> IF k \in skipped THEN NoTerm ELSE terms[k]]

\* C17: score_model returns a result for a descriptor with any of
\* capabilities, context_window, intelligence and speed absent; absent
\* capabilities count as the empty set, and a term that reads an absent key
\* adds nothing to the score and no reason.
C17_AbsentFieldsSkipTerms ==
    ScoreReturned
    => /\ result.score \in Int
       /\ "capabilities" \notin call.model.present
            => result = score_model([call.model EXCEPT !.capabilities = {},
                                        !.present = @ \cup {"capabilities"}],
                                    call.requirements)
       /\ ~(call.requirements.needs_vision /\ "vision" \notin Capabilities(call.model))
            => /\ result.score = SumScores(TermsKept, Len(TermsKept))
               /\ result.reasons = ConcatReasons(TermsKept, Len(TermsKept))

\* a descriptor with only its identity, scored for a request that would
\* otherwise earn it the intelligence, math and speed terms
C17_Witness ==
    /\ ScoreReturned
    /\ call.model.present = AllKeys \ OptionalKeys
    /\ call.model.intelligence = 5
    /\ call.model.speed = 5
    /\ call.requirements.needs_math
    /\ ~call.requirements.needs_vision
    /\ call.requirements.complexity = 1
    /\ result.score = 0

\* the reasons up to the k-th, each after the first preceded by ", " and
\* the last one by " and "
RECURSIVE ReasonsInOrder(_, _)
ReasonsInOrder(reasons, k) ==
    IF k = 0 THEN <<>>
    ELSE ReasonsInOrder(reasons, k - 1)
         \o (IF k = 1 THEN <<>> ELSE IF k = Len(reasons) THEN <<" ","a","n","d"," ">> ELSE <<","," ">>)
         \o reasons[k]

\* the name an explanation uses: the display name, or the model id when the
\* descriptor has no display name
NameOf(model) ==
    IF "display_name" \in model.present /\ model.display_name # <<>>
    THEN model.display_name ELSE model.model_id

\* C18: generate_explanation renders "Selected {name} because it ", then the
\* reasons in the order received (all but the last joined by ", ", the last
\* attached with " and ", a single reason alone) and a final "."; with no
\* reasons it renders "... is well-suited for general tasks.".
C18_ExplanationFormat ==
    (pc = "returned" /\ call.op = "generate_explanation")
    => result.explanation =
          <<"S","e","l","e","c","t","e","d"," ">> \o NameOf(call.model) \o <<" ","b","e","c","a","u","s","e"," ","i","t"," ">>
          \o (IF call.reasons = <<>> THEN <<"i","s"," ","w","e","l","l","-","s","u","i","t","e","d"," ","f","o","r"," ","g","e","n","e","r","a","l"," ","t","a","s","k","s">>
              ELSE ReasonsInOrder(call.reasons, Len(call.reasons)))
          \o <<".">>

\* three different reasons rendered for a descriptor without a display name
C18_Witness ==
    /\ pc = "returned"
    /\ call.op = "generate_explanation"
    /\ "display_name" \notin call.model.present
    /\ Len(call.reasons) = 3
    /\ call.reasons[1] # call.reasons[2]
    /\ call.reasons[2] # call.reasons[3]
    /\ result.explanation =
          <<"S","e","l","e","c","t","e","d"," ","g","p","t","-","4","o"," ","b","e","c","a","u","s","e"," ","i","t"," ","s","u","p","p","o","r","t","s"," ","i","m","a","g","e"," ","a","n","a","l","y","s","i","s",","," ","s","t","r","o","n","g"," ","c","o","d","e"," ","c","a","p","a","b","i","l","i","t","i","e","s"," ","a","n","d"," ","a","n","t","h","r","o","p","i","c","'","s"," ","s","t","r","e","n","g","t","h"," ","i","n"," ","r","e","a","s","o","n","i","n","g",".">>

-----------------------------------------------------------------------------
(* Further properties of GPToggle (specification Spec) *)

\* C13: with a candidate to choose from and a request that does not need
\* vision, recommend_model returns the provider and model id of a registered
\* candidate with that candidate's score and rendered explanation, and never
\* the fallback reason, however low the candidates score.
C13_NonEmptyCandidatesNeverFallBack ==
    (/\ call.op = "recommend_model"
     /\ Candidates # <<>>
     /\ ~NeedsVision)
    => /\ result.present = {"provider", "model", "reason", "requirements", "score"}
       /\ result.reason # <<"N","o"," ","e","l","i","g","i","b","l","e"," ","m","o","d","e","l","s"," ","f","o","u","n","d",","," ","u","s","i","n","g"," ","f","a","l","l","b","a","c","k">>
       /\ \E i \in 1..Len(Candidates) :
            /\ result.provider = Candidates[i].provider
            /\ result.model = Candidates[i].model_id
            /\ result.score = CandidateScore(i)
            /\ result.reason =
                 generate_explanation(Candidates[i],
                    score_model(Candidates[i], Requirements(call.prompt)).reasons)
            /\ has_model(registry, result.provider, result.model)

\* the only candidate is rated below the request's complexity and scores
\* below zero
C13_Witness ==
    /\ call.op = "recommend_model"
    /\ ~NeedsVision
    /\ Candidates = <<LowRated>>
    /\ LowRated.intelligence < Requirements(call.prompt).complexity
    /\ result.score < 0
    /\ result.model = <<"t","i","n","y","-","1","b">>

\* C15: recommend_model and get_task_recommendations only read the registry:
\* after the call it holds the same keys in the same order with the same
\* descriptors as before the call.
C15_RecommendationsLeaveRegistryAlone ==
    IsQuery => registry = before

C15_Witness ==
    /\ call.op = "get_task_recommendations"
    /\ Len(registry) = 3
    /\ Len(result.recommendations) = 3
    /\ registry = before

-----------------------------------------------------------------------------
(* ModelRegistry and a caller that keeps what a query returned.  The       *)
(* queries build a new list whose elements are the dict objects stored in  *)
(* self.models, so a returned descriptor and the registry's entry under    *)
(* its key are one object.                                                 *)

SharedInputs == {Gpt35Turbo, Gpt4o, CustomModel}

\* the key of the self.models entry each returned descriptor is stored under
Refs(returned) ==
    [i \in 1..Len(returned) |-> model_key(returned[i].provider, returned[i].model_id)]

\* the caller holds a list returned by a query and nothing was registered since
HoldsReturned == local.op = "returned"

\* a query has returned `returned`
Returned(op, returned) ==
    /\ call' = [op |-> op]
    /\ result' = [models |-> returned]
    /\ local' = [op |-> "returned", refs |-> Refs(returned)]
    /\ before' = registry
    /\ UNCHANGED <<config, profile, registry, latest, pc, during>>

\* ModelRegistry.get_all_models
QueryAllModels == Returned("get_all_models", get_all_models(registry))

\* ModelRegistry.get_models_by_tier
QueryModelsByTier(tier) ==
    Returned("get_models_by_tier", get_models_by_tier(registry, tier))

\* ModelRegistry.get_models_by_provider
QueryModelsByProvider(provider) ==
    Returned("get_models_by_provider", get_models_by_provider(registry, provider))

\* ModelRegistry.get_models_by_capability
QueryModelsByCapability(capability) ==
    Returned("get_models_by_capability", get_models_by_capability(registry, capability))

\* ModelRegistry.register_model; the caller's list no longer tells which
\* objects the registry holds
RegisterShared(model_info) ==
    /\ Fits(model_info)
    /\ registry' = register_model(registry, model_info).models
    /\ call' = [op |-> "register_model", model_info |-> model_info]
    /\ result' = [raised |-> FALSE]
    /\ local' = [op |-> "none"]
    /\ before' = registry
    /\ UNCHANGED <<config, profile, latest, pc, during>>

\* the caller removes the first element of the returned list: returned.pop(0)
PopReturned ==
    /\ HoldsReturned
    /\ result.models # <<>>
    /\ result' = [models |-> Tail(result.models)]
    /\ local' = [local EXCEPT !.refs = Tail(@)]
    /\ call' = [op |-> "mutate_list"]
    /\ before' = registry
    /\ UNCHANGED <<config, profile, registry, latest, pc, during>>

\* the caller appends to a returned descriptor's capabilities, as
\* register_custom_models does: returned[i]["capabilities"].append(capability)
AppendCapability(i, capability) ==
    /\ HoldsReturned
    /\ i \in 1..Len(result.models)
    /\ "capabilities" \in result.models[i].present
    /\ capability \notin result.models[i].capabilities
    /\ result' = [models |-> [result.models EXCEPT ![i].capabilities = @ \cup {capability}]]
    /\ registry' = [k \in 1..Len(registry) |->
            IF registry[k].key = local.refs[i]
            THEN [registry[k] EXCEPT !.info.capabilities = @ \cup {capability}]
            ELSE registry[k]]
    /\ call' = [op |-> "mutate_descriptor"]
    /\ before' = registry
    /\ UNCHANGED <<config, profile, latest, pc, local, during>>

SharedNext ==
    \/ \E model_info \in SharedInputs : RegisterShared(model_info)
    \/ QueryAllModels
    \/ \E tier \in {"free", "standard"} : QueryModelsByTier(tier)
    \/ \E provider \in {<<"o","p","e","n","a","i">>, <<"c","u","s","t","o","m">>} : QueryModelsByProvider(provider)
    \/ \E capability \in {"vision", "code"} : QueryModelsByCapability(capability)
    \/ PopReturned
    \/ \E i \in 1..MaxModels, capability \in {"vision", "domain-specific"} :
            AppendCapability(i, capability)

SharedSpec == RegistryInit /\ [][SharedNext]_vars

\* C14: what get_all_models, get_models_by_tier, get_models_by_provider and
\* get_models_by_capability return is independent of the registry: after
\* the caller changes the returned list or a descriptor in it, the registry
\* holds what it held before and its queries answer as before.
C14_ReturnedValuesAreIndependent ==
    call.op \in {"mutate_list", "mutate_descriptor"}
    => /\ registry = before
       /\ \A capability \in {"vision", "code", "domain-specific"} :
            get_models_by_capability(registry, capability)
                = get_models_by_capability(before, capability)

-----------------------------------------------------------------------------
(* Config (gptoggle/config.py) *)

\* the keys of Config.providers, in dict order
KnownProviders == << <<"o","p","e","n","a","i">>, <<"c","l","a","u","d","e">>, <<"g","e","m","i","n","i">>, <<"g","r","o","k">> >>

IsKnownProvider(provider) ==
    \E i \in 1..Len(KnownProviders) : KnownProviders[i] = provider

\* the provider names callers pass
ProviderNames == {KnownProviders[i] : i \in 1..Len(KnownProviders)} \cup { <<"m","i","s","t","r","a","l">> }

IsEnabled(enabled_providers, provider) ==
    \E i \in 1..Len(enabled_providers) : enabled_providers[i] = provider

\* Config.__post_init__: the providers whose API key is set in the
\* environment are enabled, in the order of Config.providers
ConfigInit ==
    /\ \E with_key \in SUBSET ProviderNames :
        config = [enabled_providers |->
                    SelectSeq(KnownProviders, LAMBDA provider : provider \in with_key)]
    /\ registry = <<>>
    /\ call = [op |-> "init"]
    /\ result = [raised |-> FALSE]
    /\ profile = NoProfile
    /\ before = <<>>
    /\ latest = {}
    /\ pc = "idle"
    /\ local = [op |-> "none"]
    /\ during = {}

\* Config.enable_provider
EnableProvider(provider) ==
    /\ call' = [op |-> "enable_provider", provider |-> provider,
                was_enabled |-> IsEnabled(config.enabled_providers, provider)]
    /\ IF IsKnownProvider(provider) /\ ~IsEnabled(config.enabled_providers, provider)
       THEN /\ config' = [config EXCEPT !.enabled_providers = Append(@, provider)]
            /\ result' = [ok |-> TRUE]
       ELSE /\ config' = config
            /\ result' = [ok |-> FALSE]
    /\ UNCHANGED <<registry, before, latest, pc, local, during, profile>>

\* Config.disable_provider: list.remove drops the first occurrence
DisableProvider(provider) ==
    /\ call' = [op |-> "disable_provider", provider |-> provider,
                was_enabled |-> IsEnabled(config.enabled_providers, provider)]
    /\ IF IsKnownProvider(provider) /\ IsEnabled(config.enabled_providers, provider)
       THEN /\ config' = [config EXCEPT !.enabled_providers =
                            LET first == CHOOSE i \in 1..Len(@) :
                                    /\ @[i] = provider
                                    /\ \A j \in 1..(i - 1) : @[j] # provider
                            IN  SubSeq(@, 1, first - 1) \o SubSeq(@, first + 1, Len(@))]
            /\ result' = [ok |-> TRUE]
       ELSE /\ config' = config
            /\ result' = [ok |-> FALSE]
    /\ UNCHANGED <<registry, before, latest, pc, local, during, profile>>

\* Config.get_enabled_providers
GetEnabledProviders ==
    /\ call' = [op |-> "get_enabled_providers"]
    /\ result' = [providers |-> config.enabled_providers]
    /\ UNCHANGED <<registry, before, latest, pc, local, during, config, profile>>

ConfigNext ==
    \/ \E provider \in ProviderNames : EnableProvider(provider)
    \/ \E provider \in ProviderNames : DisableProvider(provider)
    \/ GetEnabledProviders

ConfigSpec == ConfigInit /\ [][ConfigNext]_vars

\* C19: for a provider the Config knows, enable_provider returns True and
\* the provider is then among get_enabled_providers(); disable_provider of an
\* enabled provider returns True and the provider is then absent; and
\* enable_provider returns False only for a provider that does not exist.
C19_EnableDisableKnownProvider ==
    /\ (call.op = "enable_provider" /\ IsKnownProvider(call.provider))
            => /\ result.ok
               /\ IsEnabled(config.enabled_providers, call.provider)
    /\ (call.op = "disable_provider" /\ IsKnownProvider(call.provider)
            /\ call.was_enabled)
            => /\ result.ok
               /\ ~IsEnabled(config.enabled_providers, call.provider)
    /\ (call.op = "enable_provider" /\ ~result.ok)
            => ~IsKnownProvider(call.provider)

-----------------------------------------------------------------------------
(* EnhancedModuleService.cleanup_stale_modules_umid                        *)
(* (src/modules/moduleServiceUMID.py).  A module is [umid, metadata]; its  *)
(* metadata holds lastAccessed as the kind of string stored and the hours  *)
(* that lie between the time it names and datetime.now():                  *)
(*   "absent"    no lastAccessed, None or ""                               *)
(*   "malformed" a string datetime.fromisoformat rejects                   *)
(*   "naive"     an ISO time without offset, as datetime.now().isoformat() *)
(*   "aware"     an ISO time ending in "Z" or an offset                    *)

\* remove_days: int = 90
DefaultRemoveDays == 90

\* the most modules a profile holds
MaxProfileModules == 2

Umids == << <<"m","1">>, <<"m","2">>, <<"m","3">>, <<"m","4">> >>

LastAccessedValues ==
    { [kind |-> "absent", hours |-> 0], [kind |-> "malformed", hours |-> 0],
      [kind |-> "aware", hours |-> 35 * 24] }
    \cup { [kind |-> "naive", hours |-> hours] :
            hours \in {24, 30 * 24 - 1, 30 * 24, 95 * 24, 100 * 24} }

\* metadata dicts: "priority" may be missing, "archived" missing reads as False
MetadataValues ==
    { [lastAccessed |-> last_accessed, archived |-> archived,
       has_priority |-> has_priority, priority |-> IF has_priority THEN 7 ELSE 0] :
        last_accessed \in LastAccessedValues, archived \in BOOLEAN,
        has_priority \in BOOLEAN }

\* the profile whose context.modules holds these metadata, in this order
ProfileOf(metadatas) ==
    [modules |-> [i \in 1..Len(metadatas) |->
                    [umid |-> Umids[i], metadata |-> metadatas[i]]]]

\* (now - last_access_date).days
DaysSinceAccess(last_accessed) == last_accessed.hours \div 24

\* del modules[umid]
DeleteModule(modules, umid) == SelectSeq(modules, LAMBDA module : module.umid # umid)

\* metadata['archived'] = True
ArchiveModule(modules, umid) ==
    [k \in 1..Len(modules) |->
        IF modules[k].umid = umid
        THEN [modules[k] EXCEPT !.metadata.archived = TRUE] ELSE modules[k]]

\* a loop that archives stale modules whatever their priority
RECURSIVE CleanupFrom_AnyPriority(_, _, _, _, _, _, _)
CleanupFrom_AnyPriority(items, i, modules, archive_days, remove_days, archived_umids, removed_umids) ==
    IF i > Len(items)
    THEN [raised |-> FALSE, modules |-> modules, archived |-> archived_umids,
          removed |-> removed_umids, total_remaining |-> Len(modules)]
    ELSE LET umid == items[i].umid
             metadata == items[i].metadata
             last_accessed == metadata.lastAccessed
             days_since_access == DaysSinceAccess(last_accessed)
         IN  IF last_accessed.kind \in {"absent", "malformed"}
             THEN CleanupFrom_AnyPriority(items, i + 1, modules, archive_days,
                                          remove_days, archived_umids, removed_umids)
             ELSE IF last_accessed.kind = "aware"
             THEN [raised |-> TRUE, modules |-> modules, archived |-> archived_umids,
                   removed |-> removed_umids, total_remaining |-> Len(modules)]
             ELSE IF ~metadata.archived /\ days_since_access >= archive_days
             THEN CleanupFrom_AnyPriority(items, i + 1, ArchiveModule(modules, umid),
                                          archive_days, remove_days,
                                          Append(archived_umids, umid), removed_umids)
             ELSE IF metadata.archived /\ days_since_access >= remove_days
             THEN CleanupFrom_AnyPriority(items, i + 1, DeleteModule(modules, umid),
                                          archive_days, remove_days,
                                          archived_umids, Append(removed_umids, umid))
             ELSE CleanupFrom_AnyPriority(items, i + 1, modules, archive_days,
                                          remove_days, archived_umids, removed_umids)

\* the loop of cleanup_stale_modules_umid from the i-th of `items`, the copy
\* list(modules.items()) taken before the loop; subtracting an aware time
\* from the naive datetime.now() raises TypeError outside the try block
RECURSIVE CleanupFrom(_, _, _, _, _, _, _)
CleanupFrom(items, i, modules, archive_days, remove_days, archived_umids, removed_umids) ==
    IF i > Len(items)
    THEN [raised |-> FALSE, modules |-> modules, archived |-> archived_umids,
          removed |-> removed_umids, total_remaining |-> Len(modules)]
    ELSE LET umid == items[i].umid
             metadata == items[i].metadata
             last_accessed == metadata.lastAccessed
             days_since_access == DaysSinceAccess(last_accessed)
             priority == IF metadata.has_priority THEN metadata.priority ELSE 5
         IN  IF last_accessed.kind \in {"absent", "malformed"}
             THEN CleanupFrom(items, i + 1, modules, archive_days, remove_days,
                              archived_umids, removed_umids)
             ELSE IF last_accessed.kind = "aware"
             THEN [raised |-> TRUE, modules |-> modules, archived |-> archived_umids,
                   removed |-> removed_umids, total_remaining |-> Len(modules)]
             ELSE IF ~metadata.archived /\ days_since_access >= archive_days
             THEN IF priority < 7
                  THEN CleanupFrom(items, i + 1, ArchiveModule(modules, umid),
                                   archive_days, remove_days,
                                   Append(archived_umids, umid), removed_umids)
                  ELSE CleanupFrom(items, i + 1, modules, archive_days, remove_days,
                                   archived_umids, removed_umids)
             ELSE IF metadata.archived /\ days_since_access >= remove_days
             THEN CleanupFrom(items, i + 1, DeleteModule(modules, umid),
                              archive_days, remove_days,
                              archived_umids, Append(removed_umids, umid))
             ELSE CleanupFrom(items, i + 1, modules, archive_days, remove_days,
                              archived_umids, removed_umids)

cleanup_stale_modules_umid(modules, archive_days, remove_days) ==
    CleanupFrom(modules, 1, modules, archive_days, remove_days, <<>>, <<>>)

\* a service and a profile loaded from storage
ModuleInit ==
    /\ \E n \in 0..MaxProfileModules : \E metadatas \in [1..n -> MetadataValues] :
            profile = ProfileOf(metadatas)
    /\ config = NoConfig
    /\ registry = <<>>
    /\ call = [op |-> "init"]
    /\ result = [raised |-> FALSE]
    /\ before = <<>>
    /\ latest = {}
    /\ pc = "idle"
    /\ local = [op |-> "none"]
    /\ during = {}

\* EnhancedModuleService.cleanup_stale_modules_umid(profile, archive_days)
CleanupStaleModulesUmid(archive_days) ==
    /\ LET done == cleanup_stale_modules_umid(profile.modules, archive_days,
                                              DefaultRemoveDays)
       IN  /\ profile' = [profile EXCEPT !.modules = done.modules]
           /\ result' = [raised |-> done.raised, archived |-> done.archived,
                         removed |-> done.removed,
                         total_remaining |-> done.total_remaining]
    /\ call' = [op |-> "cleanup_stale_modules_umid", archive_days |-> archive_days,
                modules |-> profile.modules]
    /\ UNCHANGED <<registry, before, latest, pc, local, during, config>>

ModuleNext == \E archive_days \in {30, 100} : CleanupStaleModulesUmid(archive_days)

ModuleSpec == ModuleInit /\ [][ModuleNext]_vars

\* the module was in the profile when the last call started
ModulesBefore == {call.modules[i] : i \in 1..Len(call.modules)}

\* the module's metadata in the profile now, if it is still there
StillThere(umid) == \E k \in 1..Len(profile.modules) : profile.modules[k].umid = umid

MetadataNow(umid) ==
    profile.modules[CHOOSE k \in 1..Len(profile.modules) :
                        profile.modules[k].umid = umid].metadata

InSeq(x, seq) == \E k \in 1..Len(seq) : seq[k] = x

\* lastAccessed names a time, `hours` hours before now
NamesTime(metadata) == metadata.lastAccessed.kind \in {"naive", "aware"}

\* C20: cleanup_stale_modules_umid(profile, archive_days=N) archives every
\* module of default priority that is not yet archived and was last accessed
\* at least N days ago, reports it in 'archived' and keeps it in the profile;
\* a module accessed more recently than N days ago is neither archived nor
\* removed.
C20_StaleArchivedRecentUntouched ==
    call.op = "cleanup_stale_modules_umid"
    => \A module \in ModulesBefore :
        /\ (/\ NamesTime(module.metadata)
            /\ ~module.metadata.has_priority
            /\ ~module.metadata.archived
            /\ module.metadata.lastAccessed.hours >= 24 * call.archive_days)
           => /\ ~result.raised
              /\ InSeq(module.umid, result.archived)
              /\ StillThere(module.umid)
              /\ MetadataNow(module.umid).archived
        /\ (/\ NamesTime(module.metadata)
            /\ module.metadata.lastAccessed.hours < 24 * call.archive_days)
           => /\ StillThere(module.umid)
              /\ MetadataNow(module.umid) = module.metadata
              /\ ~InSeq(module.umid, result.archived)
              /\ ~InSeq(module.umid, result.removed)

-----------------------------------------------------------------------------
(* GPToggle after one register_models call (specification RankingSpec) *)

\* the longest list handed to register_models
MaxRegistered == 3

\* GPToggle.register_models on a fresh GPToggle
RegisterModels(models_list) ==
    /\ call.op = "init"
    /\ LET done == register_models_from_list(registry, models_list)
       IN  /\ registry' = done.models
           /\ result' = [raised |-> done.raised]
    /\ call' = [op |-> "register_models"]
    /\ before' = registry
    /\ UNCHANGED <<config, profile, latest, pc, local, during>>

\* GPToggle.get_task_recommendations, as the first query after register_models
RankRegistered(prompt, options) ==
    /\ call.op = "register_models"
    /\ GetTaskRecommendations(prompt, options)

RankingNext ==
    \/ \E n \in 0..MaxRegistered : \E models_list \in [1..n -> ModelCatalog] :
            RegisterModels(models_list)
    \/ \E prompt \in Prompts, options \in Options : RankRegistered(prompt, options)

RankingSpec == Init /\ [][RankingNext]_vars

\* the reasons score_model gives the i-th candidate for the last call's prompt
CandidateReasons(i) == score_model(Candidates[i], Requirements(call.prompt)).reasons

\* the place of the i-th candidate in the ranking: behind every candidate
\* with a higher score and behind earlier candidates with the same score
RankOf(i) ==
    1 + Cardinality({j \in 1..Len(Candidates) :
                        \/ CandidateScore(j) > CandidateScore(i)
                        \/ CandidateScore(j) = CandidateScore(i) /\ j < i})

\* C21: the alternates of get_task_recommendations are the first
\* min(3, number of candidates) places of the ranking (non-increasing score,
\* ties in registry order); with candidates the first alternate names the
\* provider, model and reason of the overall recommendation, and without
\* candidates the overall recommendation is the fallback and there are no
\* alternates.
C21_AlternatesLeadTheRanking ==
    call.op = "get_task_recommendations"
    => /\ Len(result.recommendations) = Min(3, Len(Candidates))
       /\ \A k \in 1..Len(result.recommendations) :
            \E i \in 1..Len(Candidates) :
                /\ RankOf(i) = k
                /\ result.recommendations[k].provider = Candidates[i].provider
                /\ result.recommendations[k].model = Candidates[i].model_id
                /\ result.recommendations[k].reason
                     = generate_explanation(Candidates[i], CandidateReasons(i))
       /\ Candidates # <<>> =>
            /\ result.recommendations[1].provider = result.overall.provider
            /\ result.recommendations[1].model = result.overall.model
            /\ result.recommendations[1].reason = result.overall.reason
       /\ Candidates = <<>> =>
            /\ result.overall = FallbackRecommendation
            /\ result.recommendations = <<>>

\* more than three candidates, two of them with the same score of which only
\* the earlier one is among the alternates
C21_Witness ==
    /\ call.op = "get_task_recommendations"
    /\ Len(Candidates) > 3
    /\ Len(result.recommendations) = 3
    /\ \E i, j \in 1..Len(Candidates) :
            /\ i < j
            /\ CandidateScore(i) = CandidateScore(j)
            /\ RankOf(i) = 3
    /\ result.recommendations[1].model = result.overall.model

-----------------------------------------------------------------------------
(* InputAnalyzer on long texts (specification ComplexitySpec) *)

\* filler * n
Repeat(filler, n) ==
    [i \in 1..(n * Len(filler)) |-> filler[((i - 1) % Len(filler)) + 1]]

\* texts at the length steps of assess_complexity: 500 and 1000 words, and
\* single words of 3000 and 6000 characters (750 and 1500 estimated tokens)
LongTexts ==
    { Repeat(<<"a"," ">>, 500), Repeat(<<"a"," ">>, 1000),
      Repeat(<<"a">>, 3000), Repeat(<<"a">>, 6000) }

\* what the caller appends to a text before analysing it again
Additions == { <<"w","o","r","d">>, <<"c","o","d","e"," ","s","o","l","v","e"," ","E","x","p","l","a","i","n">> }

\* InputAnalyzer.__init__, and a caller holding the text it will pass
ComplexityInit ==
    /\ registry = <<>>
    /\ \E prompt \in Texts \cup LongTexts : call = [op |-> "init", prompt |-> prompt]
    /\ result = [raised |-> FALSE]
    /\ Idle

\* InputAnalyzer.analyze_requirements on the text and, the caller keeping
\* that result, on the text with `addition` appended
AnalyzeExtended(addition) ==
    /\ call.op = "analyze_requirements"
    /\ call' = [op |-> "analyze_extended", prompt |-> call.prompt \o <<" ">> \o addition]
    /\ result' = analyze_requirements(call.prompt \o <<" ">> \o addition)
    /\ local' = [op |-> "caller", earlier |-> result]
    /\ UNCHANGED <<config, profile, registry, before, latest, pc, during>>

ComplexityNext ==
    \/ AnalyzeRequirements
    \/ \E addition \in Additions : AnalyzeExtended(addition)

ComplexitySpec == ComplexityInit /\ [][ComplexityNext]_vars

Analysed == call.op \in {"analyze_requirements", "analyze_extended"}

\* how many of needs_code, needs_math and needs_reasoning hold
CombinedNeeds(requirements) ==
    Cardinality({f \in {"needs_code", "needs_math", "needs_reasoning"} : requirements[f]})

\* C22: the complexity is 1, plus 1 if word_count > 500 or token_count > 750,
\* plus 1 more if word_count > 1000 or token_count > 1500, plus 1 if at least
\* two of needs_code, needs_math, needs_reasoning hold, plus 1 more if all
\* three hold; it lies in 1..5, and the complexity of a text whose length
\* counts and flags are at least those of an earlier text is not below the
\* earlier text's.
C22_ComplexityFormula ==
    Analysed
    => /\ result.complexity
            = 1 + (IF result.word_count > 500 \/ result.token_count > 750 THEN 1 ELSE 0)
                + (IF result.word_count > 1000 \/ result.token_count > 1500 THEN 1 ELSE 0)
                + (IF CombinedNeeds(result) >= 2 THEN 1 ELSE 0)
                + (IF CombinedNeeds(result) >= 3 THEN 1 ELSE 0)
       /\ result.complexity \in 1..5
       /\ (/\ call.op = "analyze_extended"
           /\ local.earlier.word_count <= result.word_count
           /\ local.earlier.token_count <= result.token_count
           /\ \A f \in {"needs_code", "needs_math", "needs_reasoning"} :
                local.earlier[f] => result[f])
          => local.earlier.complexity <= result.complexity

\* a text of 750 estimated tokens in one word, rated 1, then rated 4 with
\* three flagged words appended: 755 tokens, 4 words
C22_Witness ==
    /\ call.op = "analyze_extended"
    /\ local.earlier.token_count = 750
    /\ local.earlier.complexity = 1
    /\ result.token_count > 750
    /\ result.word_count <= 500
    /\ CombinedNeeds(result) = 3
    /\ result.complexity = 4
-----------------------------------------------------------------------------
(* The reasons of score_model (specification ScorerSpec) *)

StartsWith(text, prefix) ==
    /\ Len(text) >= Len(prefix)
    /\ \A i \in 1..Len(prefix) : text[i] = prefix[i]

\* the descriptor of the last score_model call is not disqualified
Qualified ==
    ~(call.requirements.needs_vision /\ "vision" \notin Capabilities(call.model))

\* the places of the domains whose provider tag `reason` is
DomainPlaces(reason) ==
    {d \in 1..Len(call.requirements.domains) :
        /\ "provider" \in call.model.present
        /\ reason = call.model.provider \o <<"'","s"," ","s","t","r","e","n","g","t","h"," ","i","n"," ">> \o call.requirements.domains[d]}

\* the place of a reason in the fixed order of tags, 0 for any other text
TagPlace(reason) ==
    IF reason = <<"l","i","m","i","t","e","d"," ","c","o","n","t","e","x","t"," ","w","i","n","d","o","w">> THEN 1
    ELSE IF reason = <<"s","u","p","p","o","r","t","s"," ","i","m","a","g","e"," ","a","n","a","l","y","s","i","s">> THEN 2
    ELSE IF StartsWith(reason, <<"h","i","g","h"," ","i","n","t","e","l","l","i","g","e","n","c","e"," ","r","a","t","i","n","g"," ","(">>)
            \/ StartsWith(reason, <<"l","o","w","e","r"," ","i","n","t","e","l","l","i","g","e","n","c","e"," ","r","a","t","i","n","g"," ","(">>) THEN 3
    ELSE IF reason = <<"s","t","r","o","n","g"," ","c","o","d","e"," ","c","a","p","a","b","i","l","i","t","i","e","s">> THEN 4
    ELSE IF reason = <<"s","t","r","o","n","g"," ","m","a","t","h"," ","c","a","p","a","b","i","l","i","t","i","e","s">> THEN 5
    ELSE IF reason = <<"s","p","e","c","i","a","l","i","z","e","d"," ","r","e","a","s","o","n","i","n","g"," ","c","a","p","a","b","i","l","i","t","i","e","s">> THEN 6
    ELSE IF reason = <<"c","r","e","a","t","i","v","e"," ","c","a","p","a","b","i","l","i","t","i","e","s">> THEN 7
    ELSE IF StartsWith(reason, <<"f","a","s","t"," ","r","e","s","p","o","n","s","e"," ","t","i","m","e","s"," ","(">>) THEN 8
    ELSE IF DomainPlaces(reason) # {}
    THEN 8 + (CHOOSE d \in DomainPlaces(reason) : \A e \in DomainPlaces(reason) : d <= e)
    ELSE 0

\* whether the term at `place` applies to the last score_model call, and
\* `reason` is the tag it gives
TermFired(place, reason) ==
    LET model == call.model
        requirements == call.requirements
    IN  CASE place = 1 ->
                /\ TruthyNum(model, "context_window")
                /\ model.context_window < requirements.min_context_window
          [] place = 2 ->
                requirements.needs_vision /\ "vision" \in Capabilities(model)
          [] place = 3 ->
                /\ TruthyNum(model, "intelligence")
                /\ \/ /\ model.intelligence - requirements.complexity > 1
                      /\ reason = <<"h","i","g","h"," ","i","n","t","e","l","l","i","g","e","n","c","e"," ","r","a","t","i","n","g"," ","(">>
                                  \o IntToStr(model.intelligence) \o <<"/","5",")">>
                   \/ /\ model.intelligence < requirements.complexity
                      /\ reason = <<"l","o","w","e","r"," ","i","n","t","e","l","l","i","g","e","n","c","e"," ","r","a","t","i","n","g"," ","(">>
                                  \o IntToStr(model.intelligence) \o <<"/","5",")">>
          [] place = 4 ->
                requirements.needs_code /\ "code" \in Capabilities(model)
          [] place = 5 ->
                /\ requirements.needs_math
                /\ TruthyNum(model, "intelligence")
                /\ model.intelligence >= 4
          [] place = 6 ->
                requirements.needs_reasoning /\ "reasoning" \in Capabilities(model)
          [] place = 7 ->
                requirements.needs_creativity /\ "creativity" \in Capabilities(model)
          [] place = 8 ->
                /\ requirements.complexity <= 3
                /\ TruthyNum(model, "speed")
                /\ model.speed >= 4
                /\ reason = <<"f","a","s","t"," ","r","e","s","p","o","n","s","e"," ","t","i","m","e","s"," ","(">> \o IntToStr(model.speed) \o <<"/","5",")">>
          [] place > 8 ->
                HasProviderWeight(model.provider, requirements.domains[place - 8])
          [] OTHER -> FALSE

\* C23: for a descriptor that is not disqualified, every reason score_model
\* returns is the tag of a term that fired, and the reasons stand in the
\* fixed order: limited context window, supports image analysis, the
\* intelligence note, strong code capabilities, strong math capabilities,
\* specialized reasoning capabilities, creative capabilities, fast response
\* times, then the provider tags in the order of requirements.domains.
C23_ReasonsInFixedOrder ==
    (ScoreReturned /\ Qualified)
    => \A k \in 1..Len(result.reasons) :
            /\ TermFired(TagPlace(result.reasons[k]), result.reasons[k])
            /\ k > 1 => TagPlace(result.reasons[k - 1]) < TagPlace(result.reasons[k])

\* two provider tags behind three capability and speed tags, for domains the
\* caller ordered creativity, reasoning
C23_Witness ==
    /\ ScoreReturned
    /\ Qualified
    /\ call.requirements.domains = << <<"c","r","e","a","t","i","v","i","t","y">>, <<"r","e","a","s","o","n","i","n","g">> >>
    /\ Len(result.reasons) = 5
    /\ result.reasons[2] = <<"c","r","e","a","t","i","v","e"," ","c","a","p","a","b","i","l","i","t","i","e","s">>
    /\ result.reasons[4] = <<"a","n","t","h","r","o","p","i","c","'","s"," ","s","t","r","e","n","g","t","h"," ","i","n"," ","c","r","e","a","t","i","v","i","t","y">>
    /\ result.reasons[5] = <<"a","n","t","h","r","o","p","i","c","'","s"," ","s","t","r","e","n","g","t","h"," ","i","n"," ","r","e","a","s","o","n","i","n","g">>

\* what the blocks other than the context window check add to the score of
\* the last score_model call
ScoreWithoutContext ==
    score_model([call.model EXCEPT !.present = @ \ {"context_window"}],
                call.requirements).score

\* C24: for a descriptor with a context_window, the context-window term adds
\* 20 and no reason when context_window >= requirements.min_context_window,
\* and takes 30 and gives the reason "limited context window" when
\* context_window is below it; min_context_window being at least 1000, every
\* descriptor with a context window below 1000 is penalised.
C24_ContextTermAsymmetric ==
    (/\ ScoreReturned
     /\ Qualified
     /\ "context_window" \in call.model.present
     /\ call.requirements.min_context_window >= 1000)
    => /\ call.model.context_window >= call.requirements.min_context_window
            => /\ result.score = ScoreWithoutContext + 20
               /\ \A k \in 1..Len(result.reasons) :
                    result.reasons[k] # <<"l","i","m","i","t","e","d"," ","c","o","n","t","e","x","t"," ","w","i","n","d","o","w">>
       /\ call.model.context_window < call.requirements.min_context_window
            => /\ result.score = ScoreWithoutContext - 30
               /\ result.reasons # <<>>
               /\ result.reasons[1] = <<"l","i","m","i","t","e","d"," ","c","o","n","t","e","x","t"," ","w","i","n","d","o","w">>
       /\ call.model.context_window < 1000
            => result.score < ScoreWithoutContext
-----------------------------------------------------------------------------
(* UserProfile (gptoggle_v2.py).  The profile is a record of the dict       *)
(* fields the methods change; a dict is a sequence of [key, value] in       *)
(* insertion order; datetime.now() is the number of the call being made.    *)

\* dict.get(key, default)
ItemGet(items, key, default) ==
    IF \E i \in 1..Len(items) : items[i].key = key
    THEN items[CHOOSE i \in 1..Len(items) : items[i].key = key].value
    ELSE default

\* dict[key] = value
ItemSet(items, key, value) ==
    IF \E i \in 1..Len(items) : items[i].key = key
    THEN [i \in 1..Len(items) |->
            IF items[i].key = key THEN [key |-> key, value |-> value] ELSE items[i]]
    ELSE Append(items, [key |-> key, value |-> value])

\* sequence[:n]
Leading(sequence, n) == SubSeq(sequence, 1, Min(n, Len(sequence)))

\* None where a string or a time is expected; `if model_used:` treats None
\* and the empty string alike
None == <<>>

\* UserProfile.create_default
create_default ==
    [ communicationStyle |-> [tone |-> "casual"],
      expertise |-> [domains |-> <<>>, skillLevel |-> <<>>],
      context |-> [ present |-> {"recentInteractions", "savedItems", "learningPatterns"},
                    recentInteractions |-> <<>>,
                    learningPatterns |-> [commonTopics |-> <<>>],
                    recentQueries |-> <<>>,
                    interactionHistory |-> [queryTypes |-> <<>>,
                                            lastModelUsed |-> None,
                                            lastInteraction |-> None] ],
      metadata |-> [lastUpdated |-> 0] ]

\* domain_keywords of _update_domain_expertise, in dict order
domain_keywords == <<
    [domain |-> "technology",
     keywords |-> << <<"c","o","d","e">>, <<"p","r","o","g","r","a","m","m","i","n","g">>, <<"s","o","f","t","w","a","r","e">>, <<"a","p","i">>,
                     <<"d","a","t","a","b","a","s","e">>, <<"j","a","v","a","s","c","r","i","p","t">>, <<"p","y","t","h","o","n">>, <<"a","l","g","o","r","i","t","h","m">> >>],
    [domain |-> "business",
     keywords |-> << <<"c","o","n","t","r","a","c","t">>, <<"r","e","v","e","n","u","e">>, <<"s","t","r","a","t","e","g","y">>, <<"m","a","r","k","e","t","i","n","g">>,
                     <<"s","a","l","e","s">>, <<"f","i","n","a","n","c","e">>, <<"b","u","d","g","e","t">>, <<"r","o","i">> >>],
    [domain |-> "creative",
     keywords |-> << <<"d","e","s","i","g","n">>, <<"a","r","t">>, <<"s","t","o","r","y">>, <<"c","r","e","a","t","i","v","e">>, <<"p","o","e","m">>,
                     <<"m","u","s","i","c">>, <<"m","e","l","o","d","y">>, <<"c","o","m","p","o","s","i","t","i","o","n">> >>],
    [domain |-> "education",
     keywords |-> << <<"l","e","a","r","n">>, <<"t","e","a","c","h">>, <<"s","t","u","d","y">>, <<"l","e","s","s","o","n">>, <<"t","u","t","o","r","i","a","l">>,
                     <<"c","o","u","r","s","e">>, <<"h","o","m","e","w","o","r","k">>, <<"a","s","s","i","g","n","m","e","n","t">> >>],
    [domain |-> "science",
     keywords |-> << <<"r","e","s","e","a","r","c","h">>, <<"e","x","p","e","r","i","m","e","n","t">>, <<"d","a","t","a">>, <<"a","n","a","l","y","s","i","s">>,
                     <<"h","y","p","o","t","h","e","s","i","s">>, <<"t","h","e","o","r","y">>, <<"s","c","i","e","n","t","i","f","i","c">> >>],
    [domain |-> "health",
     keywords |-> << <<"m","e","d","i","c","a","l">>, <<"h","e","a","l","t","h">>, <<"n","u","t","r","i","t","i","o","n">>, <<"e","x","e","r","c","i","s","e">>,
                     <<"w","e","l","l","n","e","s","s">>, <<"t","h","e","r","a","p","y">>, <<"t","r","e","a","t","m","e","n","t">> >>],
    [domain |-> "cooking",
     keywords |-> << <<"r","e","c","i","p","e">>, <<"c","o","o","k">>, <<"i","n","g","r","e","d","i","e","n","t">>, <<"f","o","o","d">>, <<"m","e","a","l">>,
                     <<"k","i","t","c","h","e","n">>, <<"b","a","k","e">>, <<"p","r","e","p","a","r","e">> >>] >>

casual_indicators == <<
    <<"h","e","y">>, <<"h","i">>, <<"t","h","a","n","k","s">>, <<"c","o","o","l">>, <<"a","w","e","s","o","m","e">>, <<"l","o","l">>, <<"b","t","w">>,
    <<"g","o","n","n","a">>, <<"w","a","n","n","a">> >>

formal_indicators == <<
    <<"p","l","e","a","s","e">>, <<"w","o","u","l","d"," ","y","o","u">>, <<"c","o","u","l","d"," ","y","o","u">>, <<"k","i","n","d","l","y">>, <<"r","e","s","p","e","c","t","f","u","l","l","y">>,
    <<"s","i","n","c","e","r","e","l","y">> >>

professional_indicators == <<
    <<"a","n","a","l","y","z","e">>, <<"e","v","a","l","u","a","t","e">>, <<"a","s","s","e","s","s">>, <<"p","r","o","v","i","d","e">>, <<"d","e","m","o","n","s","t","r","a","t","e">>,
    <<"i","m","p","l","e","m","e","n","t">> >>

\* sum(1 for keyword in keywords if keyword in query_lower)
Matches(query_lower, keywords) ==
    Cardinality({k \in 1..Len(keywords) : Contains(query_lower, keywords[k])})

\* one pass of the loop of _update_domain_expertise
UpdateDomain(expertise, entry, query_lower) ==
    LET matches == Matches(query_lower, entry.keywords)
        listed == \E i \in 1..Len(expertise.domains) : expertise.domains[i] = entry.domain
    IN  IF matches = 0 THEN expertise
        ELSE [ domains |-> IF ~listed /\ matches >= 2
                           THEN Append(expertise.domains, entry.domain)
                           ELSE expertise.domains,
               skillLevel |-> ItemSet(expertise.skillLevel, entry.domain,
                                      Min(ItemGet(expertise.skillLevel, entry.domain, 0)
                                          + matches, 10)) ]

RECURSIVE UpdateDomainsFrom(_, _, _)
UpdateDomainsFrom(expertise, d, query_lower) ==
    IF d > Len(domain_keywords) THEN expertise
    ELSE UpdateDomainsFrom(UpdateDomain(expertise, domain_keywords[d], query_lower),
                           d + 1, query_lower)

\* UserProfile._update_domain_expertise: the expertise dict afterwards
update_domain_expertise(expertise, query) ==
    UpdateDomainsFrom(expertise, 1, ToLower(query))

RECURSIVE SumValues(_, _)
SumValues(items, n) ==
    IF n = 0 THEN 0 ELSE SumValues(items, n - 1) + items[n].value

\* UserProfile._update_communication_tone: the tone afterwards
update_communication_tone(tone, queryTypes, query) ==
    LET query_lower == ToLower(query)
        casual_count == Matches(query_lower, casual_indicators)
        formal_count == Matches(query_lower, formal_indicators)
        professional_count == Matches(query_lower, professional_indicators)
        total_interactions == SumValues(queryTypes, Len(queryTypes))
    IN  IF total_interactions < 3 THEN tone
        ELSE IF casual_count > formal_count + professional_count THEN "casual"
        ELSE IF professional_count > casual_count THEN "professional"
        ELSE IF formal_count > casual_count THEN "formal"
        ELSE tone

\* a recentQueries that keeps the ten oldest entries
RecentQueries_KeepingOldest(recent, entry) ==
    IF Len(recent) < 10 THEN <<entry>> \o recent ELSE recent

\* recentQueries.insert(0, entry), then recentQueries[:10]
RecentQueries(recent, entry) == Leading(<<entry>> \o recent, 10)

\* UserProfile.update_profile_adaptively: the profile afterwards
update_profile_adaptively(user, query, query_type, model_used, timestamp) ==
    LET history == user.context.interactionHistory
        queryTypes == ItemSet(history.queryTypes, query_type,
                              ItemGet(history.queryTypes, query_type, 0) + 1)
    IN  [ communicationStyle |->
              [tone |-> update_communication_tone(user.communicationStyle.tone,
                                                   queryTypes, query)],
          expertise |-> update_domain_expertise(user.expertise, query),
          context |->
              [ present |-> user.context.present
                            \cup {"recentQueries", "interactionHistory"},
                recentInteractions |-> user.context.recentInteractions,
                learningPatterns |-> user.context.learningPatterns,
                recentQueries |->
                    RecentQueries(user.context.recentQueries,
                                  [query |-> query, type |-> query_type,
                                   timestamp |-> timestamp]),
                interactionHistory |->
                    [ queryTypes |-> queryTypes,
                      lastModelUsed |-> IF model_used # None
                                        THEN model_used
                                        ELSE history.lastModelUsed,
                      lastInteraction |-> timestamp ] ],
          metadata |-> [lastUpdated |-> timestamp] ]

-----------------------------------------------------------------------------
(* UserProfile under update_profile_adaptively (specification QueriesSpec) *)

\* the most calls of update_profile_adaptively on one profile
MaxQueries == 11

\* (query, query_type, model_used) of a call
QueryInputs ==
    { [query |-> <<"H","e","y"," ","t","h","a","n","k","s",","," ","w","r","i","t","e"," ","P","y","t","h","o","n"," ","c","o","d","e"," ","f","o","r"," ","t","h","i","s"," ","A","P","I">>,
       query_type |-> "code", model_used |-> <<"g","p","t","-","4","o">>],
      [query |-> <<"P","l","e","a","s","e"," ","a","n","a","l","y","z","e"," ","a","n","d"," ","e","v","a","l","u","a","t","e"," ","t","h","e"," ","r","e","s","e","a","r","c","h"," ","d","a","t","a">>,
       query_type |-> "analytical", model_used |-> None] }

\* UserProfile.create_default; `during` is the sequence of calls made
QueriesInit ==
    /\ profile = create_default
    /\ registry = <<>>
    /\ call = [op |-> "init"]
    /\ result = [raised |-> FALSE]
    /\ config = NoConfig
    /\ before = <<>>
    /\ latest = {}
    /\ pc = "idle"
    /\ local = [op |-> "none"]
    /\ during = <<>>

\* UserProfile.update_profile_adaptively
UpdateProfileAdaptively(input) ==
    /\ Len(during) < MaxQueries
    /\ profile' = update_profile_adaptively(profile, input.query, input.query_type,
                                            input.model_used, Len(during) + 1)
    /\ call' = [op |-> "update_profile_adaptively", input |-> input]
    /\ during' = Append(during, input)
    /\ UNCHANGED <<config, registry, result, before, latest, pc, local>>

QueriesNext == \E input \in QueryInputs : UpdateProfileAdaptively(input)

QueriesSpec == QueriesInit /\ [][QueriesNext]_vars

\* C25: after n calls of update_profile_adaptively, recentQueries holds
\* min(n, 10) entries, those of the most recent calls with the newest first:
\* entry i is the query of call n + 1 - i.
C25_TenMostRecentQueries ==
    call.op = "update_profile_adaptively"
    => LET recent == profile.context.recentQueries
           n == Len(during)
       IN  /\ Len(recent) = Min(n, 10)
           /\ \A i \in 1..Len(recent) :
                /\ recent[i].query = during[n + 1 - i].query
                /\ recent[i].type = during[n + 1 - i].query_type
                /\ recent[i].timestamp = n + 1 - i

\* an eleventh call, whose query differs from the first call's, which is gone
C25_Witness ==
    /\ Len(during) = 11
    /\ Len(profile.context.recentQueries) = 10
    /\ during[1].query # during[2].query
    /\ profile.context.recentQueries[10].query = during[2].query
    /\ profile.context.recentQueries[1].query = during[11].query

\* the i-th candidate of the last recommendation call is disqualified
Disqualified(i) == NeedsVision /\ ~HasVision(Candidates[i])

-----------------------------------------------------------------------------
(* Analysis followed by scoring (specification AffinitySpec) *)

\* request texts for each domain the analyzer names, one of them using the
\* word "creativity" itself, and one for no domain
AffinityTexts ==
    { <<"D","e","b","u","g"," ","t","h","i","s"," ","c","o","d","e">>, <<"S","o","l","v","e"," ","t","h","e"," ","e","q","u","a","t","i","o","n">>,
      <<"W","r","i","t","e"," ","a"," ","c","r","e","a","t","i","v","e"," ","p","o","e","m"," ","t","h","a","t"," ","s","h","o","w","s"," ","c","r","e","a","t","i","v","i","t","y">>,
      <<"E","x","p","l","a","i","n"," ","t","h","e"," ","a","r","g","u","m","e","n","t"," ","s","t","e","p"," ","b","y"," ","s","t","e","p">>, <<"H","e","l","l","o"," ","t","h","e","r","e">> }

\* a descriptor of the provider with no capability beyond text
AffinityModel(provider) ==
    [ScorerModel({"text"}, 3, 2, {}) EXCEPT !.provider = provider]

AffinityProviders ==
    {provider_weights[i].provider : i \in 1..Len(provider_weights)} \cup { <<"l","o","c","a","l">> }

AffinityAnalyzed == [text \in AffinityTexts |-> analyze_requirements(text)]

\* a caller holding a request text and a descriptor
AffinityInit ==
    /\ registry = <<>>
    /\ \E prompt \in Texts \cup AffinityTexts, provider \in AffinityProviders :
            call = [op |-> "init", prompt |-> prompt, model |-> AffinityModel(provider)]
    /\ result = [raised |-> FALSE]
    /\ Idle

\* InputAnalyzer.analyze_requirements, then ModelScorer.score_model with the
\* requirements it returned
ScoreAnalyzed ==
    /\ call.op = "init"
    /\ call' = [call EXCEPT !.op = "score_model"]
    /\ result' = With(LAMBDA requirements :
                        [requirements |-> requirements,
                         scored |-> score_model(call.model, requirements)],
                      analyze_requirements(call.prompt))
    /\ UNCHANGED <<config, profile, registry, before, latest, pc, local, during>>

AffinityNext == ScoreAnalyzed

AffinitySpec == AffinityInit /\ [][AffinityNext]_vars

InList(value, list) == \E i \in 1..Len(list) : list[i] = value

\* the table entry takes effect for the text: the analyzed domains name the
\* entry's domain, and a descriptor of the entry's provider gets the bonus
\* and the reason that a descriptor of no listed provider does not get
TakesEffect(entry, text) ==
    LET requirements == AffinityAnalyzed[text]
        scored == score_model(AffinityModel(entry.provider), requirements)
        plain == score_model(AffinityModel(<<"l","o","c","a","l">>), requirements)
    IN  /\ InList(entry.domain, requirements.domains)
        /\ scored.score = plain.score + entry.bonus
        /\ InList(entry.provider \o <<"'","s"," ","s","t","r","e","n","g","t","h"," ","i","n"," ">> \o entry.domain, scored.reasons)

\* C27: every (provider, domain) entry of the provider table can take
\* effect: for each entry of the provider of the descriptor just scored
\* there is a request text whose analyzed domains contain the entry's
\* domain, so that the descriptor receives the entry's bonus and reason.
C27_EveryTableEntryTakesEffect ==
    call.op = "score_model"
    => \A e \in 1..Len(provider_weights) :
            provider_weights[e].provider = call.model.provider
            => \E text \in AffinityTexts : TakesEffect(provider_weights[e], text)

\* the analyzer names the creative domain "creative": no analysis has a
\* domain "creativity", and "anthropic's strength in creativity" is never given
NoCreativityDomain ==
    call.op = "score_model"
    => /\ ~InList(<<"c","r","e","a","t","i","v","i","t","y">>, result.requirements.domains)
       /\ ~InList(<<"a","n","t","h","r","o","p","i","c","'","s"," ","s","t","r","e","n","g","t","h"," ","i","n"," ","c","r","e","a","t","i","v","i","t","y">>, result.scored.reasons)

\* every entry but (anthropic, creativity) takes effect
OtherEntriesTakeEffect ==
    \A e \in 1..Len(provider_weights) :
        provider_weights[e].domain # <<"c","r","e","a","t","i","v","i","t","y">>
        => \E text \in AffinityTexts : TakesEffect(provider_weights[e], text)
-----------------------------------------------------------------------------
(* GPToggle.get_response (specification ResponseSpec).  Here `config` holds  *)
(* self.api_keys and self.provider_handlers as the sets of their keys; a     *)
(* call of a provider handler is recorded as the pair it was given.          *)

ResponseProviders == { <<"o","p","e","n","a","i">>, <<"a","n","t","h","r","o","p","i","c">>, <<"x","a","i">> }

ResponseModels == {Gpt4o, Claude3Sonnet}

ResponsePrompts ==
    { <<"W","h","a","t"," ","i","s"," ","2","+","2","?">>, <<"D","e","s","c","r","i","b","e"," ","w","h","a","t"," ","i","s"," ","h","a","p","p","e","n","i","n","g"," ","i","n"," ","t","h","i","s"," ","i","m","a","g","e">> }

\* provider_name and model_name arguments, None among them
ProviderNameValues == {None, <<"o","p","e","n","a","i">>, <<"a","n","t","h","r","o","p","i","c">>}

ModelNameValues == {None, Gpt4o.model_id, Claude3Sonnet.model_id}

\* GPToggle.get_response up to the call of the handler: whether ValueError
\* was raised, and the handler called with its provider and model
get_response(models, api_keys, provider_handlers, prompt, provider_name, model_name, params) ==
    LET auto == provider_name = None \/ model_name = None
        recommendation == recommend_model(models, prompt, params)
        provider == IF auto /\ provider_name = None THEN recommendation.provider
                    ELSE provider_name
        model == IF auto /\ model_name = None THEN recommendation.model
                 ELSE model_name
    IN  IF provider \notin api_keys
        THEN [raised |-> TRUE, auto |-> auto]
        ELSE IF provider \in provider_handlers
        THEN [raised |-> FALSE, auto |-> auto, handler |-> "registered",
              provider |-> provider, model |-> model]
        ELSE IF provider \in { <<"o","p","e","n","a","i">>, <<"a","n","t","h","r","o","p","i","c">> }
        THEN [raised |-> FALSE, auto |-> auto, handler |-> "built-in",
              provider |-> provider, model |-> model]
        ELSE [raised |-> TRUE, auto |-> auto]

\* GPToggle.__init__ with some api_keys
ResponseInit ==
    /\ \E api_keys \in SUBSET ResponseProviders :
        /\ config = [api_keys |-> api_keys, provider_handlers |-> {}]
        /\ registry = register_fallback_models(<<"a","n","t","h","r","o","p","i","c">> \in api_keys)
    /\ call = [op |-> "init"]
    /\ result = [raised |-> FALSE]
    /\ profile = NoProfile
    /\ before = <<>>
    /\ latest = {}
    /\ pc = "idle"
    /\ local = [op |-> "none"]
    /\ during = {}

\* GPToggle.register_provider_handler
RegisterProviderHandler(provider) ==
    /\ config' = [config EXCEPT !.provider_handlers = @ \cup {provider}]
    /\ call' = [op |-> "register_provider_handler", provider |-> provider]
    /\ result' = [raised |-> FALSE]
    /\ UNCHANGED <<profile, registry, before, latest, pc, local, during>>

\* GPToggle.get_response
GetResponse(prompt, provider_name, model_name) ==
    /\ call' = [op |-> "get_response", prompt |-> prompt,
                provider_name |-> provider_name, model_name |-> model_name]
    /\ result' = get_response(registry, config.api_keys, config.provider_handlers,
                              prompt, provider_name, model_name, NoOptions)
    /\ UNCHANGED <<config, profile, registry, before, latest, pc, local, during>>

ResponseNext ==
    \/ \E model_info \in ResponseModels : RegisterModel(model_info)
    \/ \E provider \in ResponseProviders : RegisterProviderHandler(provider)
    \/ \E prompt \in ResponsePrompts, provider_name \in ProviderNameValues,
          model_name \in ModelNameValues :
            GetResponse(prompt, provider_name, model_name)

ResponseSpec == ResponseInit /\ [][ResponseNext]_vars

\* C28: the provider and model given to a handler are either both the
\* caller's, or the provider and model of what recommend_model returns for
\* the prompt; so when the caller gives only one of the two, the model is
\* the one recommended together with the provider.
C28_DispatchedPairIsConsistent ==
    (call.op = "get_response" /\ ~result.raised)
    => \/ /\ call.provider_name # None
          /\ call.model_name # None
          /\ result.provider = call.provider_name
          /\ result.model = call.model_name
       \/ /\ result.provider = recommend_model(registry, call.prompt, NoOptions).provider
          /\ result.model = recommend_model(registry, call.prompt, NoOptions).model
-----------------------------------------------------------------------------
(* UserProfile under add_interaction (specification TopicsSpec) *)

\* the place of entry i after common_topics.sort(key=frequency, reverse=True):
\* behind every entry with a higher frequency and behind the earlier entries
\* with the same frequency
FrequencyPlace(common_topics, i) ==
    1 + Cardinality({j \in 1..Len(common_topics) :
                        \/ common_topics[j].frequency > common_topics[i].frequency
                        \/ /\ common_topics[j].frequency = common_topics[i].frequency
                           /\ j < i})

SortByFrequency(common_topics) ==
    [k \in 1..Len(common_topics) |->
        common_topics[CHOOSE i \in 1..Len(common_topics) :
                        FrequencyPlace(common_topics, i) = k]]

\* the "Update learning patterns" block: commonTopics afterwards
UpdateCommonTopics(common_topics, category, now) ==
    LET existing == \E i \in 1..Len(common_topics) : common_topics[i].topic = category
        first == CHOOSE i \in 1..Len(common_topics) : 
                    /\ common_topics[i].topic = category
                    /\ \A j \in 1..(i - 1) : common_topics[j].topic # category
        counted ==
            IF existing
            THEN [common_topics EXCEPT ![first] =
                    [topic |-> category, frequency |-> @.frequency + 1, lastSeen |-> now]]
            ELSE Append(common_topics,
                        [topic |-> category, frequency |-> 1, lastSeen |-> now])
    IN  Leading(SortByFrequency(counted), 20)

\* UserProfile.add_interaction: the profile afterwards
add_interaction(user, content, category, service, now) ==
    [user EXCEPT
        !.context.recentInteractions =
            Leading(<< [content |-> content, timestamp |-> now,
                        category |-> category, service |-> service] >> \o @, 100),
        !.context.learningPatterns.commonTopics =
            IF category # None THEN UpdateCommonTopics(@, category, now) ELSE @,
        !.metadata.lastUpdated = now]

\* the most calls of add_interaction on one profile
MaxInteractions == 23

\* the name of the k-th category
TopicName(k) == <<"t","o","p","i","c","-">> \o IntToStr(k)

\* the categories passed so far
Passed == {during[i] : i \in 1..Len(during)} \ {None}

\* how often add_interaction was given the category
TimesPassed(category) == Cardinality({i \in 1..Len(during) : during[i] = category})

\* the categories a caller passes: a new one on each of the first nineteen
\* calls, then a new one, the first one, the newest one, or none
Categories ==
    IF Cardinality(Passed) < 19 THEN {TopicName(Cardinality(Passed) + 1)}
    ELSE {TopicName(Cardinality(Passed) + 1), TopicName(1),
          TopicName(Cardinality(Passed)), None}

\* UserProfile.create_default; `during` is the sequence of categories passed
TopicsInit == QueriesInit

\* UserProfile.add_interaction
AddInteraction(category) ==
    /\ Len(during) < MaxInteractions
    /\ profile' = add_interaction(profile, <<"H","o","w"," ","d","o"," ","I"," ","d","o"," ","t","h","i","s","?">>, category,
                                  "gptoggle", Len(during) + 1)
    /\ call' = [op |-> "add_interaction", category |-> category]
    /\ during' = Append(during, category)
    /\ UNCHANGED <<config, registry, result, before, latest, pc, local>>

TopicsNext == \E category \in Categories : AddInteraction(category)

TopicsSpec == TopicsInit /\ [][TopicsNext]_vars

CommonTopics == profile.context.learningPatterns.commonTopics

Listed(category) == \E i \in 1..Len(CommonTopics) : CommonTopics[i].topic = category

\* C29: after any calls of add_interaction, commonTopics holds at most 20
\* topics in non-increasing order of frequency, and no category missing
\* from it was passed to add_interaction more often than a category in it.
C29_CommonTopicsAreMostFrequent ==
    call.op = "add_interaction"
    => /\ Len(CommonTopics) <= 20
       /\ \A i \in 1..Len(CommonTopics) : \A j \in (i + 1)..Len(CommonTopics) :
            CommonTopics[i].frequency >= CommonTopics[j].frequency
       /\ \A absent \in Passed : \A i \in 1..Len(CommonTopics) :
            ~Listed(absent) => TimesPassed(absent) <= TimesPassed(CommonTopics[i].topic)

\* the list is bounded and ordered, and a listed topic's frequency is the
\* number of times its category was passed
CommonTopicsBoundedAndOrdered ==
    /\ Len(CommonTopics) <= 20
    /\ \A i \in 1..Len(CommonTopics) :
        /\ CommonTopics[i].frequency = TimesPassed(CommonTopics[i].topic)
        /\ \A j \in (i + 1)..Len(CommonTopics) :
            CommonTopics[i].frequency >= CommonTopics[j].frequency
-----------------------------------------------------------------------------
(* Modules created, updated and cleaned up (specification LifecycleSpec).   *)
(* A time in a module's metadata is kept as the hours that have passed      *)
(* since; `latest` records every module created, with its priority.         *)

\* the longest a module is followed without access, in days
MaxIdleDays == 120

\* datetime.now().isoformat(), as the time of the call
Now == [kind |-> "naive", hours |-> 0]

\* create_module_with_umid: the module under the generated umid
create_module_with_umid(umid, module_type, initial_data, priority) ==
    [ umid |-> umid,
      type |-> module_type,
      data |-> initial_data,
      metadata |-> [ lastUpdated |-> Now, lastAccessed |-> Now,
                     has_priority |-> TRUE, priority |-> priority,
                     archived |-> FALSE ] ]

HasModule(modules, umid) == \E k \in 1..Len(modules) : modules[k].umid = umid

\* _update_list_data with a string: the item is added unless it is there;
\* the data of a list module is kept as the set of its items
update_list_data(current_data, new_data) == current_data \cup {new_data}

\* update_module_by_umid: what it returns and the modules afterwards
update_module_by_umid(modules, umid, new_data) ==
    IF ~HasModule(modules, umid) THEN [returned |-> FALSE, modules |-> modules]
    ELSE [returned |-> TRUE,
          modules |->
            [k \in 1..Len(modules) |->
                IF modules[k].umid # umid THEN modules[k]
                ELSE [modules[k] EXCEPT
                        !.data = IF modules[k].type = "list"
                                 THEN update_list_data(@, new_data) ELSE @,
                        !.metadata.lastUpdated = Now,
                        !.metadata.lastAccessed = Now]]]

\* a service and a profile without modules
LifecycleInit ==
    /\ profile = NoProfile
    /\ config = NoConfig
    /\ registry = <<>>
    /\ call = [op |-> "init"]
    /\ result = [raised |-> FALSE]
    /\ before = <<>>
    /\ latest = {}
    /\ pc = "idle"
    /\ local = [op |-> "none"]
    /\ during = {}

\* create_module_with_umid, and the caller's modules.update(new_module); the
\* generated umid is one not given out before
CreateModuleWithUmid(module_type, priority) ==
    /\ Cardinality(latest) < MaxProfileModules
    /\ LET umid == Umids[Cardinality(latest) + 1]
       IN  /\ profile' = [profile EXCEPT !.modules =
                            Append(@, create_module_with_umid(umid, module_type,
                                                              {"milk"}, priority))]
           /\ latest' = latest \cup {[umid |-> umid, priority |-> priority]}
           /\ call' = [op |-> "create_module_with_umid", umid |-> umid]
    /\ result' = [raised |-> FALSE]
    /\ UNCHANGED <<config, registry, before, pc, local, during>>

\* update_module_by_umid
UpdateModuleByUmid(umid) ==
    /\ LET done == update_module_by_umid(profile.modules, umid, "eggs")
       IN  /\ profile' = [profile EXCEPT !.modules = done.modules]
           /\ result' = [raised |-> FALSE, returned |-> done.returned]
    /\ call' = [op |-> "update_module_by_umid", umid |-> umid]
    /\ UNCHANGED <<config, registry, before, latest, pc, local, during>>

\* cleanup_stale_modules_umid(profile), with the default archive_days = 30
\* and remove_days = 90
CleanupStale ==
    /\ LET done == cleanup_stale_modules_umid(profile.modules, 30, DefaultRemoveDays)
       IN  /\ profile' = [profile EXCEPT !.modules = done.modules]
           /\ result' = [raised |-> done.raised, archived |-> done.archived,
                         removed |-> done.removed,
                         total_remaining |-> done.total_remaining]
    /\ call' = [op |-> "cleanup_stale_modules_umid"]
    /\ UNCHANGED <<config, registry, before, latest, pc, local, during>>

\* `days` days pass without a call
DaysPass(days) ==
    /\ profile.modules # <<>>
    /\ \A k \in 1..Len(profile.modules) :
            profile.modules[k].metadata.lastUpdated.hours + 24 * days <= 24 * MaxIdleDays
    /\ profile' = [profile EXCEPT !.modules =
                    [k \in 1..Len(@) |->
                        [@[k] EXCEPT !.metadata.lastUpdated.hours = @ + 24 * days,
                                     !.metadata.lastAccessed.hours = @ + 24 * days]]]
    /\ call' = [op |-> "days_pass"]
    /\ result' = [raised |-> FALSE]
    /\ UNCHANGED <<config, registry, before, latest, pc, local, during>>

LifecycleNext ==
    \/ \E module_type \in {"list", "tracker"}, priority \in {5, 7, 10} :
            CreateModuleWithUmid(module_type, priority)
    \/ \E k \in 1..(MaxProfileModules + 1) : UpdateModuleByUmid(Umids[k])
    \/ CleanupStale
    \/ \E days \in {30, 60} : DaysPass(days)

LifecycleSpec == LifecycleInit /\ [][LifecycleNext]_vars

\* C30: a module created with priority 7 or higher is still in the profile
\* and is not marked archived, whatever calls were made since and however
\* long it has gone without access.
C30_HighPriorityModulesStay ==
    \A created \in latest :
        created.priority >= 7
        => /\ StillThere(created.umid)
           /\ ~MetadataNow(created.umid).archived

\* after a cleanup, a module of priority 7 last accessed 90 days ago or
\* more is there and not archived, and a module of priority 5 is gone
C30_Witness ==
    /\ call.op = "cleanup_stale_modules_umid"
    /\ \E created \in latest :
        /\ created.priority = 7
        /\ StillThere(created.umid)
        /\ MetadataNow(created.umid).lastAccessed.hours >= 24 * DefaultRemoveDays
        /\ ~MetadataNow(created.umid).archived
    /\ \E created \in latest : created.priority = 5 /\ ~StillThere(created.umid)
====
